---- MODULE Spec2Model ----
(***************************************************************************)
(* Hematite event store: the stream log (src/src/db.rs, Database) as a     *)
(* state machine over its record file and its two in-memory indexes.       *)
(*                                                                         *)
(* The record file is a sequence of bytes.  An event is serialized as      *)
(* json_len(e) bytes followed by a newline; a line decodes to an event     *)
(* only when it is exactly the serialization of that event.                *)
(*                                                                         *)
(* The registry (src/src/server.rs, AppState) is a second state machine:   *)
(* concurrent tasks calling insert_event, insert_event_many and            *)
(* delete_stream on one (user, stream) key, each handle of the map holding *)
(* a Database of its own over the same record file.                        *)
(***************************************************************************)
EXTENDS Integers, Sequences, FiniteSets, TLC

\* ------------------------------------------------------------------ bounds
\* longest batch handed to insert_batch
MaxBatch == 4
\* most rows a stream holds before the model stops appending
MaxRows == 4
\* largest limit handed to query_many
MaxLimit == 2
\* number of concurrent AppState calls, one per task
MaxTasks == 2
\* number of AppState calls one caller makes one after another
MaxCalls == 4
\* worker threads of the runtime
MaxThreads == 2
\* AppState calls in flight on the runtime at once
MaxInFlight == 4
\* the clock of the OpenID client runs from 0 to MaxClock
MaxClock == 5
\* the OpenID client fetches from the issuer at most MaxFetches times
MaxFetches == 3

\* ------------------------------------------------------------ sample data
\* the line terminator written after each event
NL == "\n"

\* sample CloudEvents: a long one and a short one
Events == {"a", "b"}

\* length in bytes of serde_json::to_string(event)
json_len(e) == IF e = "a" THEN 3 ELSE 1

\* (event.source(), event.id())
source_id(e) == IF e = "a" THEN <<"s1", "1">> ELSE <<"s1", "2">>

\* serde_json::to_string(&event): json_len(e) bytes, none of them a newline
to_string(e) == [i \in 1..json_len(e) |-> e]

\* an empty BTreeMap
EmptyMap == <<>>

\* BTreeMap::insert
map_insert(m, k, v) == [x \in (DOMAIN m) \cup {k} |-> IF x = k THEN v ELSE m[x]]

SetMax(S) == CHOOSE x \in S : \A y \in S : y <= x

\* ExpectedRevision: Any | NoStream | StreamExists | Exact(n)
ExpectedRevisions ==
    {[tag |-> t, n |-> 0] : t \in {"Any", "NoStream", "StreamExists"}}
        \cup {[tag |-> "Exact", n |-> n] : n \in 0..MaxRows}

\* the batches handed to insert_batch, the empty one included
RECURSIVE SeqsUpTo(_, _)
SeqsUpTo(S, n) ==
    IF n = 0 THEN {<<>>}
    ELSE LET shorter == SeqsUpTo(S, n - 1)
         IN  shorter \cup {Append(s, x) : s \in shorter, x \in S}

Batches == SeqsUpTo(Events, MaxBatch)

\* ------------------------------------------------------- lines and codec
\* index of the first newline of s, 0 when there is none
RECURSIVE first_newline(_, _)
first_newline(s, i) ==
    IF i > Len(s) THEN 0
    ELSE IF s[i] = NL THEN i
    ELSE first_newline(s, i + 1)

\* BufReader::lines(): the newline-terminated lines without their newline,
\* then the unterminated rest when it is not empty
RECURSIVE lines(_)
lines(s) ==
    IF s = <<>> THEN <<>>
    ELSE LET k == first_newline(s, 1)
         IN  IF k = 0 THEN <<s>>
             ELSE <<SubSeq(s, 1, k - 1)>> \o lines(SubSeq(s, k + 1, Len(s)))

\* the bytes read after seek(SeekFrom::Start(offset)); nothing past the end
seek_from(f, offset) ==
    IF offset >= Len(f) THEN <<>> ELSE SubSeq(f, offset + 1, Len(f))

\* decode_event: Ok(event) when the row is the JSON of an event
decode_event(row) ==
    IF Len(row) > 0 /\ row[1] \in Events /\ row = to_string(row[1])
    THEN [ok |-> TRUE, event |-> row[1]]
    ELSE [ok |-> FALSE, event |-> ""]

\* revision() counting the rows instead of naming the last one
revision_counting_rows(pi) == Cardinality(DOMAIN pi)

\* Database::revision
revision(pi) == IF DOMAIN pi = {} THEN 0 ELSE SetMax(DOMAIN pi)

\* Database::load: index every line of the record file; a line that does
\* not decode ends the scan with an error, the rows before it stay indexed
RECURSIVE load_rows(_, _, _, _, _)
load_rows(ls, rowid, offset, pi, sii) ==
    IF ls = <<>> THEN [ok |-> TRUE, primary_index |-> pi, source_id_index |-> sii]
    ELSE LET line == Head(ls)
             d == decode_event(line)
         IN  IF ~d.ok
             THEN [ok |-> FALSE, primary_index |-> pi, source_id_index |-> sii]
             ELSE load_rows(Tail(ls), rowid + 1, offset + Len(line) + 1,
                            map_insert(pi, rowid, offset),
                            map_insert(sii, source_id(d.event), rowid))

load(f, pi, sii) == load_rows(lines(f), 0, 0, pi, sii)

\* the match taking Exact(0) for matched on a stream without events
revision_match_zero_on_empty(pi, expected) ==
    CASE expected.tag = "Any" -> TRUE
      [] expected.tag = "NoStream" -> DOMAIN pi = {}
      [] expected.tag = "StreamExists" -> DOMAIN pi # {}
      [] OTHER -> IF DOMAIN pi = {} THEN expected.n = 0
                  ELSE SetMax(DOMAIN pi) = expected.n

\* the match with Exact(n) compared against the number of rows
revision_match_by_count(pi, expected) ==
    CASE expected.tag = "Any" -> TRUE
      [] expected.tag = "NoStream" -> DOMAIN pi = {}
      [] expected.tag = "StreamExists" -> DOMAIN pi # {}
      [] OTHER -> Cardinality(DOMAIN pi) = expected.n

\* the expected-revision match of insert and insert_batch
revision_match(pi, expected) ==
    CASE expected.tag = "Any" -> TRUE
      [] expected.tag = "NoStream" -> DOMAIN pi = {}
      [] expected.tag = "StreamExists" -> DOMAIN pi # {}
      [] OTHER -> DOMAIN pi # {} /\ SetMax(DOMAIN pi) = expected.n

\* the duplicate check looking only at the row written last
source_id_conflict_last_row(sii, events) ==
    \E i \in 1..Len(events) :
        /\ source_id(events[i]) \in DOMAIN sii
        /\ \A k \in DOMAIN sii : sii[k] <= sii[source_id(events[i])]

\* write_events, the duplicate check: some event of the list is already in
\* the source_id_index
source_id_conflict(sii, events) ==
    \E i \in 1..Len(events) : source_id(events[i]) \in DOMAIN sii

\* write_events, the buffer: event_lengths receives bytes.len() before each
\* event is written to the buffer
RECURSIVE serialize(_, _, _)
serialize(events, bytes, event_lengths) ==
    IF events = <<>> THEN [bytes |-> bytes, event_lengths |-> event_lengths]
    ELSE serialize(Tail(events),
                   bytes \o to_string(Head(events)) \o <<NL>>,
                   Append(event_lengths, Len(bytes)))

\* the index loop giving the next event the row number of the last one
next_event_same_row(pi, prev_offset) ==
    IF DOMAIN pi = {} THEN [rownum |-> 0, offset |-> 0]
    ELSE [rownum |-> SetMax(DOMAIN pi), offset |-> prev_offset]

\* the index loop giving the next event the offset of the last row
next_event_stale_offset(pi, prev_offset) ==
    IF DOMAIN pi = {} THEN [rownum |-> 0, offset |-> 0]
    ELSE [rownum |-> SetMax(DOMAIN pi) + 1, offset |-> pi[SetMax(DOMAIN pi)]]

\* the index loop numbering the first row 1
next_event_from_one(pi, prev_offset) ==
    IF DOMAIN pi = {} THEN [rownum |-> 1, offset |-> 0]
    ELSE [rownum |-> SetMax(DOMAIN pi) + 1, offset |-> prev_offset]

\* write_events, the index loop: the row number and offset of the next event
next_event(pi, prev_offset) ==
    IF DOMAIN pi = {} THEN [rownum |-> 0, offset |-> 0]
    ELSE [rownum |-> SetMax(DOMAIN pi) + 1, offset |-> prev_offset]

\* write_events, the index loop: the running offset after one event
next_prev_offset(prev_offset, event_length) == prev_offset + event_length

\* Database::query after the Running check and the index lookup hit
read_row(f, row_offset) ==
    LET ls == lines(seek_from(f, row_offset))
    IN  IF ls = <<>> THEN [status |-> "Ok", events |-> <<>>]
        ELSE LET d == decode_event(Head(ls))
             IN  IF d.ok THEN [status |-> "Ok", events |-> <<d.event>>]
                 ELSE [status |-> "DecodeFailed", events |-> <<>>]

\* Database::query_many after the index lookup hit: up to limit lines
RECURSIVE decode_rows(_, _, _)
decode_rows(ls, limit, acc) ==
    IF ls = <<>> \/ limit = 0 THEN [status |-> "Ok", events |-> acc]
    ELSE LET d == decode_event(Head(ls))
         IN  IF d.ok THEN decode_rows(Tail(ls), limit - 1, Append(acc, d.event))
             ELSE [status |-> "DecodeFailed", events |-> <<>>]

read_rows(f, row_offset, limit) ==
    decode_rows(lines(seek_from(f, row_offset)), limit, <<>>)

\* ------------------------------------------------------------------ state
VARIABLES
    state,            \* RunState of the Database
    primary_index,    \* row number -> offset of the row in the record file
    source_id_index,  \* (source, id) -> row number
    file_exists,      \* whether the record file exists at Database.path
    file,             \* bytes of the record file
    pc,               \* "idle", inside write_events ("write", "index"), or
                      \* "done": the call has returned to its caller
    w,                \* locals of the write_events call in progress
    call,             \* the call in progress or just returned: its arguments
                      \* and the Database as it was when the call was made
    ret,              \* what the call returned
    stream,           \* history: the events of the acknowledged appends
    removed,          \* history: delete has succeeded on this Database
    last_returned     \* history: what the last successful append returned

\* the registry of server.rs over the one (user, stream) key that is modelled
VARIABLES
    streams,          \* AppState.streams at the key: {} or {handle}
    dbs,              \* handle -> the Database behind its Arc<Mutex<..>>
    mutex,            \* handle -> the task holding its Mutex: {} or {task}
    refs,             \* tasks holding a Ref into the map (streams.get)
    user_dir,         \* whether the user's directory exists
    tasks,            \* task -> the AppState call it runs and where it is
    returned,         \* history: the call that returned last
    previous,         \* history: the call a caller saw return before that
    calls,            \* history: the calls a caller has seen return
    accepted,         \* history: the accepted appends, in order
    inserted,         \* history: the handles streams.insert has put in the map
    deleted           \* history: delete_stream has been called

logvars ==
    <<state, primary_index, source_id_index, pc, w, call, ret, stream, removed,
      last_returned>>

regvars ==
    <<streams, dbs, mutex, refs, user_dir, tasks, returned, previous, calls,
      accepted, inserted, deleted>>

\* the streams directory and the registry over all of its keys
VARIABLES
    dirs,             \* the directories under streams_path, by name
    files,            \* path <<directory, name>> -> bytes of the file there
    stream_map,       \* AppState.streams: <<user_id, stream_id>> -> Database
    up,               \* AppState::new has returned Ok: the process serves
    answer,           \* the call that returned last and what it returned
    made,             \* history: the calls made so far
    appended          \* history: key -> the events of its accepted appends

scanvars == <<dirs, files, stream_map, up, answer, made, appended>>

\* the HTTP API: the response to the last request
VARIABLES response

apivars == <<response>>

\* what the read handlers of api.rs send back
VARIABLES
    served,           \* the last response of a read handler: the request,
                      \* the events of its body, its Cache-Control header
    cached            \* history: request -> the events of the first
                      \* response to it that was marked immutable

cachevars == <<served, cached>>

\* the OpenID client of openid.rs
VARIABLES
    oidc_config,               \* Option: {} or {configuration}
    oidc_config_last_updated,  \* Option: {} or {time}
    jwks,                      \* Option: {} or {set of key ids}
    jwks_last_updated,         \* Option: {} or {time}
    now,                       \* SystemTime::now(), in units of 12 hours
    authorized,                \* history: what the last call of
                               \* authorize_current_user did and returned
    config_fetched             \* history: the times at which the
                               \* configuration was fetched successfully

oidcvars ==
    <<oidc_config, oidc_config_last_updated, jwks, jwks_last_updated, now,
      authorized, config_fetched>>

\* the registry's locks and the worker threads of the runtime
VARIABLES
    futures,          \* call -> its operation, key, handle and where it is
    workers,          \* the calls that are on a worker thread
    registry,         \* key -> the handle the map has for it: {} or {handle}
    held_refs,        \* the calls that hold a Ref into the map
    guards,           \* handle -> the call that holds its Mutex: {} or {call}
    same_shard        \* whether the two keys hash to the same shard:
                      \* "unset", "yes" or "no"

rtvars == <<futures, workers, registry, held_refs, guards, same_shard>>

\* what the calls on the streams directory leave alone
beside_scan == <<file, file_exists, logvars, regvars, rtvars, oidcvars>>

\* what the steps of the runtime leave alone
beside_runtime ==
    <<file, file_exists, logvars, regvars, scanvars, apivars, cachevars,
      oidcvars>>

\* what the OpenID client leaves alone
beside_openid ==
    <<file, file_exists, logvars, regvars, scanvars, rtvars, apivars,
      cachevars>>

\* the variables of the other state machines of this module
elsewhere == <<scanvars, rtvars, apivars, cachevars, oidcvars>>

vars == <<state, primary_index, source_id_index, file_exists, file, pc, w,
          call, ret, stream, removed, last_returned, regvars, elsewhere>>

NoWrite ==
    [events |-> <<>>, event_lengths |-> <<>>, bytes |-> <<>>, i |-> 0,
     prev_offset |-> 0, last_revision |-> 0]

NoExpected == [tag |-> "Any", n |-> 0]

Call(op, events, expected, start_row, limit) ==
    [op |-> op, events |-> events, expected |-> expected, start |-> start_row,
     limit |-> limit, state0 |-> state, file0 |-> file,
     file_exists0 |-> file_exists, primary_index0 |-> primary_index,
     source_id_index0 |-> source_id_index, stream0 |-> stream,
     last_returned0 |-> last_returned]

NoCall ==
    [op |-> "none", events |-> <<>>, expected |-> NoExpected, start |-> 0,
     limit |-> 0, state0 |-> "Stopped", file0 |-> <<>>,
     file_exists0 |-> FALSE, primary_index0 |-> EmptyMap,
     source_id_index0 |-> EmptyMap, stream0 |-> <<>>, last_returned0 |-> {}]

Ret(status, value, events) ==
    [status |-> status, value |-> value, events |-> events]

NoRet == Ret("none", 0, <<>>)

Rows == Cardinality(DOMAIN primary_index)

\* the tasks; a handle is named after the task that created it
Tasks == 1..MaxTasks

\* Database::new
NewDatabase ==
    [state |-> "Stopped", primary_index |-> EmptyMap,
     source_id_index |-> EmptyMap]

\* a task that has not made its call yet
NoTask == [pc |-> "idle", op |-> "none", db |-> {}]

\* what is kept of a returned call: the task, the operation, the result, and
\* for an append its expected revision and the number of events the record
\* file held when the append was decided
Returned(t, op, status, value, expected, count) ==
    [task |-> {t}, op |-> op, status |-> status, value |-> value,
     expected |-> expected, count |-> count, events |-> <<>>]

NoneReturned ==
    [task |-> {}, op |-> "none", status |-> "none", value |-> 0,
     expected |-> NoExpected, count |-> 0, events |-> <<>>]

\* AppState::new on a streams directory that holds no stream
AppStateNew ==
    /\ streams = {}
    /\ dbs = [h \in Tasks |-> NewDatabase]
    /\ mutex = [h \in Tasks |-> {}]
    /\ refs = {}
    /\ user_dir = FALSE
    /\ tasks = [t \in Tasks |-> NoTask]
    /\ returned = NoneReturned
    /\ previous = NoneReturned
    /\ calls = 0
    /\ accepted = <<>>
    /\ inserted = {}
    /\ deleted = FALSE

\* the users: one whose ID has a dot in it
UserIds == {<<"u">>, <<"u", ".", "v">>}

\* the stream IDs "x" and "y"
StreamIds == {<<120>>, <<121>>}

\* type UserStreamId
Keys == UserIds \X StreamIds

\* what is kept of a returned call
Answer(op, user_id, status, value, summaries) ==
    [op |-> op, user_id |-> user_id, status |-> status, value |-> value,
     summaries |-> summaries]

\* AppState::new on an empty streams directory
ScanInit ==
    /\ dirs = {}
    /\ files = EmptyMap
    /\ stream_map = EmptyMap
    /\ up = TRUE
    /\ answer = Answer("none", <<>>, "none", 0, {})
    /\ made = 0
    /\ appended = [key \in Keys |-> <<>>]

\* ---------------------------------------------- the registry on its workers
\* The facade calls as the tasks of the runtime: each call is a future that
\* a worker thread polls.  streams.get hands out a Ref that keeps the read
\* lock of the key's shard until the call returns; streams.insert and
\* streams.remove take the write lock of the shard and keep their worker
\* thread while they wait for it; db.lock().await gives the worker thread
\* back while the Mutex is taken.

\* the calls in flight
Callers == 1..MaxInFlight

\* two (user, stream) keys
RtKeys == {"k1", "k2"}

\* the facade calls, one for each way to use the locks: get_event_many and
\* get_stream take them as get_event does, insert_event_many as insert_event
RtOps == {"get_event", "insert_event", "delete_stream"}

\* the keys the scan of AppState::new finds on disk
Found == {"k1"}

\* a call that has not been made
NoFuture == [op |-> "none", key |-> "none", handle |-> {}, pc |-> "idle"]

\* a call that has returned: its future is dropped
Dropped == [op |-> "none", key |-> "none", handle |-> {}, pc |-> "done"]

\* the handle a call has created for a key; 0 names the startup scan
Handles == RtKeys \X (0..MaxInFlight)

\* the response to a request: the handler, whether auth let the request
\* through, the status code, the outcome of the facade call behind it, and
\* whether the registry had the addressed stream when the request came
Response(handler, authenticated, code, outcome, registered) ==
    [handler |-> handler, authenticated |-> authenticated, code |-> code,
     outcome |-> outcome, registered |-> registered]

\* no request yet
ApiInit == response = Response("none", FALSE, 0, "none", FALSE)

\* a read request: the handler, the user, the stream and the rows asked for
Request(handler, user_id, stream_id, start_row, limit) ==
    [handler |-> handler, user_id |-> user_id, stream_id |-> stream_id,
     start_row |-> start_row, limit |-> limit]

\* the body and the Cache-Control header of a response
Served(request, code, events, cache_control) ==
    [request |-> request, code |-> code, events |-> events,
     cache_control |-> cache_control]

NoRequest == Request("none", <<>>, <<>>, 0, 0)

\* no response yet, and nothing served as immutable
CacheInit ==
    /\ served = Served(NoRequest, 0, <<>>, "none")
    /\ cached = EmptyMap

\* what a call of authorize_current_user did: how it ended, whether
\* refresh_oidc_config and refresh_keys fetched ("no", "ok", "failed"), what
\* they returned, and the clock when the call was made
Authorized(status, config_fetch, config_refresh, keys_fetch, keys_refresh, at) ==
    [status |-> status, config_fetch |-> config_fetch,
     config_refresh |-> config_refresh, keys_fetch |-> keys_fetch,
     keys_refresh |-> keys_refresh, at |-> at]

\* OpenIdClient::new: nothing cached, no call yet
OpenIdClient_new ==
    /\ oidc_config = {}
    /\ oidc_config_last_updated = {}
    /\ jwks = {}
    /\ jwks_last_updated = {}
    /\ now = 0
    /\ authorized = Authorized("none", "no", "none", "no", "none", 0)
    /\ config_fetched = <<>>

\* before AppState::new: no map yet
RtInit ==
    /\ futures = [t \in Callers |-> NoFuture]
    /\ workers = {}
    /\ registry = [k \in RtKeys |-> {}]
    /\ held_refs = {}
    /\ guards = [h \in Handles |-> {}]
    /\ same_shard = "unset"

\* Database::new on a path that holds no record file yet
Init ==
    /\ AppStateNew
    /\ ScanInit
    /\ RtInit
    /\ ApiInit
    /\ CacheInit
    /\ OpenIdClient_new
    /\ state = "Stopped"
    /\ primary_index = EmptyMap
    /\ source_id_index = EmptyMap
    /\ file_exists = FALSE
    /\ file = <<>>
    /\ pc = "idle"
    /\ w = NoWrite
    /\ call = NoCall
    /\ ret = NoRet
    /\ stream = <<>>
    /\ removed = FALSE
    /\ last_returned = {}

\* a process restart: Database::new on the same path, the file kept
new ==
    /\ pc = "idle"
    /\ state' = "Stopped"
    /\ primary_index' = EmptyMap
    /\ source_id_index' = EmptyMap
    /\ removed' = FALSE
    /\ UNCHANGED <<file_exists, file, pc, w, call, ret, stream,
                   last_returned>>

\* start moving to Running whether the load succeeded or not
start_ignoring_load ==
    /\ pc = "idle"
    /\ call' = Call("start", <<>>, NoExpected, 0, 0)
    /\ pc' = "done"
    /\ IF state = "Running"
       THEN /\ ret' = Ret("Ok", 0, <<>>)
            /\ UNCHANGED <<state, primary_index, source_id_index,
                           file_exists>>
       ELSE LET l == load(file, primary_index, source_id_index)
            IN  /\ file_exists' = TRUE
                /\ primary_index' = l.primary_index
                /\ source_id_index' = l.source_id_index
                /\ state' = "Running"
                /\ ret' = IF l.ok THEN Ret("Ok", 1, <<>>)
                          ELSE Ret("DecodeFailed", 0, <<>>)
    /\ UNCHANGED <<file, w, stream, removed, last_returned>>

\* Database::start
start ==
    /\ pc = "idle"
    /\ call' = Call("start", <<>>, NoExpected, 0, 0)
    /\ pc' = "done"
    /\ IF state = "Running"
       THEN /\ ret' = Ret("Ok", 0, <<>>)
            /\ UNCHANGED <<state, primary_index, source_id_index,
                           file_exists>>
       ELSE LET l == load(file, primary_index, source_id_index)
            IN  /\ file_exists' = TRUE
                /\ primary_index' = l.primary_index
                /\ source_id_index' = l.source_id_index
                /\ state' = IF l.ok THEN "Running" ELSE "Stopped"
                /\ ret' = IF l.ok THEN Ret("Ok", 1, <<>>)
                          ELSE Ret("DecodeFailed", 0, <<>>)
    /\ UNCHANGED <<file, w, stream, removed, last_returned>>

\* query without the check that the Database is Running
query_unchecked(rownum) ==
    /\ pc = "idle"
    /\ call' = Call("query", <<>>, NoExpected, rownum, 1)
    /\ pc' = "done"
    /\ file_exists' = TRUE
    /\ IF rownum \notin DOMAIN primary_index
       THEN ret' = Ret("Ok", 0, <<>>)
       ELSE LET r == read_row(file, primary_index[rownum])
            IN  ret' = Ret(r.status, 0, r.events)
    /\ UNCHANGED <<state, primary_index, source_id_index, file, w, stream,
                   removed, last_returned>>

\* Database::query
query(rownum) ==
    /\ pc = "idle"
    /\ call' = Call("query", <<>>, NoExpected, rownum, 1)
    /\ pc' = "done"
    /\ IF state # "Running"
       THEN /\ ret' = Ret("Stopped", 0, <<>>)
            /\ UNCHANGED file_exists
       ELSE /\ file_exists' = TRUE
            /\ IF rownum \notin DOMAIN primary_index
               THEN ret' = Ret("Ok", 0, <<>>)
               ELSE LET r == read_row(file, primary_index[rownum])
                    IN  ret' = Ret(r.status, 0, r.events)
    /\ UNCHANGED <<state, primary_index, source_id_index, file, w, stream,
                   removed, last_returned>>

\* Database::query_many
query_many(start_row, limit) ==
    /\ pc = "idle"
    /\ call' = Call("query_many", <<>>, NoExpected, start_row, limit)
    /\ pc' = "done"
    /\ IF state # "Running"
       THEN /\ ret' = Ret("Stopped", 0, <<>>)
            /\ UNCHANGED file_exists
       ELSE /\ file_exists' = TRUE
            /\ IF start_row \notin DOMAIN primary_index
               THEN ret' = Ret("Ok", 0, <<>>)
               ELSE LET r == read_rows(file, primary_index[start_row], limit)
                    IN  ret' = Ret(r.status, 0, r.events)
    /\ UNCHANGED <<state, primary_index, source_id_index, file, w, stream,
                   removed, last_returned>>

\* a call of insert or insert_batch that fails before it writes anything
Reject(status) ==
    /\ ret' = Ret(status, 0, <<>>)
    /\ pc' = "done"
    /\ UNCHANGED <<state, primary_index, source_id_index, file_exists, file,
                   w, stream, removed, last_returned>>

\* write_events up to the file write: the empty check, the duplicate check
\* and the buffer; the call returns here when a check fails
write_events(events) ==
    IF events = <<>> THEN Reject("EmptyList")
    ELSE IF source_id_conflict(source_id_index, events)
    THEN Reject("SourceIdConflict")
    ELSE LET b == serialize(events, <<>>, <<>>)
         IN  /\ pc' = "write"
             /\ w' = [NoWrite EXCEPT !.events = events, !.bytes = b.bytes,
                                     !.event_lengths = b.event_lengths]
             /\ ret' = NoRet
             /\ UNCHANGED <<state, primary_index, source_id_index,
                            file_exists, file, stream, removed,
                            last_returned>>

\* insert writing the event to the record file before it checks the revision
insert_write_first(event, expected) ==
    /\ pc = "idle"
    /\ Rows + 1 <= MaxRows
    /\ call' = Call("insert", <<event>>, expected, 0, 0)
    /\ IF state # "Running" THEN Reject("Stopped")
       ELSE IF revision_match(primary_index, expected)
       THEN write_events(<<event>>)
       ELSE /\ file' = file \o to_string(event) \o <<NL>>
            /\ file_exists' = TRUE
            /\ ret' = Ret("RevisionMismatch", 0, <<>>)
            /\ pc' = "done"
            /\ UNCHANGED <<state, primary_index, source_id_index, w, stream,
                           removed, last_returned>>

\* Database::insert
insert(event, expected) ==
    /\ pc = "idle"
    /\ Rows + 1 <= MaxRows
    /\ call' = Call("insert", <<event>>, expected, 0, 0)
    /\ IF state # "Running" THEN Reject("Stopped")
       ELSE IF revision_match(primary_index, expected)
       THEN write_events(<<event>>)
       ELSE Reject("RevisionMismatch")

\* insert_batch opening the record file, which creates it, before it looks
\* at the list
insert_batch_open_first(events, expected) ==
    /\ pc = "idle"
    /\ Rows + Len(events) <= MaxRows
    /\ call' = Call("insert_batch", events, expected, 0, 0)
    /\ IF state # "Running" THEN Reject("Stopped")
       ELSE IF events = <<>>
       THEN /\ file_exists' = TRUE
            /\ ret' = Ret("EmptyList", 0, <<>>)
            /\ pc' = "done"
            /\ UNCHANGED <<state, primary_index, source_id_index, file, w,
                           stream, removed, last_returned>>
       ELSE IF revision_match(primary_index, expected)
       THEN write_events(events)
       ELSE Reject("RevisionMismatch")

\* Database::insert_batch
insert_batch(events, expected) ==
    /\ pc = "idle"
    /\ Rows + Len(events) <= MaxRows
    /\ call' = Call("insert_batch", events, expected, 0, 0)
    /\ IF state # "Running" THEN Reject("Stopped")
       ELSE IF events = <<>> THEN Reject("EmptyList")
       ELSE IF revision_match(primary_index, expected)
       THEN write_events(events)
       ELSE Reject("RevisionMismatch")

\* the file write done with write instead of write_all: it stops after the
\* first line of the buffer
write_file_short ==
    /\ pc = "write"
    /\ file_exists' = TRUE
    /\ file' = file \o SubSeq(w.bytes, 1, first_newline(w.bytes, 1))
    /\ w' = [w EXCEPT !.prev_offset = Len(file), !.i = 1]
    /\ pc' = "index"
    /\ UNCHANGED <<state, primary_index, source_id_index, call, ret, stream,
                   removed, last_returned>>

\* write_events, the file write: open (creating the file), seek to the end,
\* write the whole buffer
write_file ==
    /\ pc = "write"
    /\ file_exists' = TRUE
    /\ file' = file \o w.bytes
    /\ w' = [w EXCEPT !.prev_offset = Len(file), !.i = 1]
    /\ pc' = "index"
    /\ UNCHANGED <<state, primary_index, source_id_index, call, ret, stream,
                   removed, last_returned>>

\* write_events, one round of the index loop; the last round returns
index_event ==
    /\ pc = "index"
    /\ LET event == w.events[w.i]
           nxt == next_event(primary_index, w.prev_offset)
           last == w.i = Len(w.events)
       IN  /\ primary_index' = map_insert(primary_index, nxt.rownum, nxt.offset)
           /\ source_id_index' =
                  map_insert(source_id_index, source_id(event), nxt.rownum)
           /\ IF last
              THEN /\ pc' = "done"
                   /\ w' = NoWrite
                   /\ ret' = Ret("Ok", nxt.rownum, <<>>)
                   /\ stream' = stream \o w.events
                   /\ last_returned' = {nxt.rownum}
                   /\ UNCHANGED removed
              ELSE /\ pc' = "index"
                   /\ w' = [w EXCEPT
                              !.i = w.i + 1,
                              !.prev_offset =
                                  next_prev_offset(w.prev_offset,
                                                   w.event_lengths[w.i]),
                              !.last_revision = nxt.rownum]
                   /\ UNCHANGED <<ret, stream, removed, last_returned>>
    /\ UNCHANGED <<state, file_exists, file, call>>

\* delete removing the record file and leaving the indexes as they are
delete_keeping_indexes ==
    /\ pc = "idle"
    /\ call' = Call("delete", <<>>, NoExpected, 0, 0)
    /\ pc' = "done"
    /\ IF file_exists
       THEN /\ file_exists' = FALSE
            /\ file' = <<>>
            /\ stream' = <<>>
            /\ removed' = TRUE
            /\ UNCHANGED <<primary_index, source_id_index, last_returned>>
            /\ ret' = Ret("Ok", 0, <<>>)
       ELSE /\ ret' = Ret("IoError", 0, <<>>)
            /\ UNCHANGED <<file_exists, file, primary_index, source_id_index,
                           stream, removed, last_returned>>
    /\ UNCHANGED <<state, w>>

\* Database::delete
delete ==
    /\ pc = "idle"
    /\ call' = Call("delete", <<>>, NoExpected, 0, 0)
    /\ pc' = "done"
    /\ IF file_exists
       THEN /\ file_exists' = FALSE
            /\ file' = <<>>
            /\ primary_index' = EmptyMap
            /\ source_id_index' = EmptyMap
            /\ stream' = <<>>
            /\ removed' = TRUE
            /\ UNCHANGED last_returned
            /\ ret' = Ret("Ok", 0, <<>>)
       ELSE /\ ret' = Ret("IoError", 0, <<>>)
            /\ UNCHANGED <<file_exists, file, primary_index, source_id_index,
                           stream, removed, last_returned>>
    /\ UNCHANGED <<state, w>>

\* the caller takes the result; the Database is ready for the next call
return ==
    /\ pc = "done"
    /\ pc' = "idle"
    /\ call' = NoCall
    /\ ret' = NoRet
    /\ UNCHANGED <<state, primary_index, source_id_index, file_exists, file,
                   w, stream, removed, last_returned>>

Next ==
    /\ UNCHANGED <<regvars, elsewhere>>
    /\ \/ new
       \/ start
       \/ \E rownum \in 0..MaxRows : query(rownum)
       \/ \E start_row \in 0..MaxRows, limit \in 0..MaxLimit :
              query_many(start_row, limit)
       \/ \E event \in Events, expected \in ExpectedRevisions :
              insert(event, expected)
       \/ \E events \in Batches, expected \in ExpectedRevisions :
              insert_batch(events, expected)
       \/ write_file
       \/ index_event
       \/ delete
       \/ return

Spec == Init /\ [][Next]_vars

\* the process dies inside write_events: before the file write, part-way
\* through it (any prefix of the buffer has reached the file), or before the
\* index loop has finished; the next process starts from Database::new
crash ==
    /\ pc \in {"write", "index"}
    /\ \E k \in 0..Len(w.bytes) :
           /\ pc = "index" => k = 0
           /\ file' = file \o SubSeq(w.bytes, 1, k)
           /\ file_exists' = (file_exists \/ k > 0)
    /\ state' = "Stopped"
    /\ primary_index' = EmptyMap
    /\ source_id_index' = EmptyMap
    /\ pc' = "idle"
    /\ w' = NoWrite
    /\ call' = NoCall
    /\ ret' = NoRet
    /\ removed' = FALSE
    /\ UNCHANGED <<stream, last_returned, regvars, elsewhere>>

SpecCrash == Init /\ [][Next \/ crash]_vars

\* ------------------------------------------------------------ the registry
\* the event lists a task hands to insert_event (one event) and to
\* insert_event_many (none, or two)
RegBatches == {<<e>> : e \in Events} \cup {<<>>, <<"a", "b">>}

\* the expected revisions a task hands to an append
RegExpected ==
    [tag : {"Any", "NoStream", "StreamExists"}, n : {0}]
        \cup [tag : {"Exact"}, n : {0, 1}]

\* the handle a task holds
handle(t) == CHOOSE h \in tasks[t].db : TRUE

\* calls start in the order of the task numbers
MayCall(t) ==
    /\ tasks[t].pc = "idle"
    /\ \A u \in Tasks : u < t => tasks[u].pc # "idle"

\* the call of task t returns
Return(t, status, value, expected, count) ==
    /\ tasks' = [tasks EXCEPT ![t] = [NoTask EXCEPT !.pc = "done"]]
    /\ returned' = Returned(t, tasks[t].op, status, value, expected, count)

\* the call of task t goes on
Goto(t, label) ==
    /\ tasks' = [tasks EXCEPT ![t].pc = label]
    /\ UNCHANGED returned

\* write_events, the whole index loop
RECURSIVE index_loop(_, _, _, _, _, _)
index_loop(events, event_lengths, pi, sii, prev_offset, last_revision) ==
    IF events = <<>>
    THEN [primary_index |-> pi, source_id_index |-> sii,
          last_revision |-> last_revision]
    ELSE LET nxt == next_event(pi, prev_offset)
         IN  index_loop(Tail(events), Tail(event_lengths),
                        map_insert(pi, nxt.rownum, nxt.offset),
                        map_insert(sii, source_id(Head(events)), nxt.rownum),
                        next_prev_offset(prev_offset, Head(event_lengths)),
                        nxt.rownum)

\* insert_event / insert_event_many enter initialize_database: contains_key
contains_key(t, op) ==
    /\ MayCall(t)
    /\ tasks' = [tasks EXCEPT ![t] =
                    [@ EXCEPT !.op = op,
                              !.pc = IF streams = {} THEN "mkdir" ELSE "get"]]
    /\ UNCHANGED <<previous, calls, inserted, streams, dbs, mutex, refs,
                   user_dir, returned, accepted, deleted, file, file_exists,
                   logvars, elsewhere>>

\* initialize_database: create_dir_all and Database::new
create_dir_all(t) ==
    /\ tasks[t].pc = "mkdir"
    /\ user_dir' = TRUE
    /\ dbs' = [dbs EXCEPT ![t] = NewDatabase]
    /\ Goto(t, "insert")
    /\ UNCHANGED <<previous, calls, inserted, streams, mutex, refs, accepted,
                   deleted, file, file_exists, logvars, elsewhere>>

\* streams.insert with the write lock taken as soon as the task asks for it,
\* whether or not a Ref into the map is alive
streams_insert_over_refs(t) ==
    /\ tasks[t].pc = "insert"
    /\ streams' = {t}
    /\ inserted' = inserted \cup {t}
    /\ Goto(t, "get")
    /\ UNCHANGED <<previous, calls, dbs, mutex, refs, user_dir, accepted,
                   deleted, file, file_exists, logvars, elsewhere>>

\* initialize_database: streams.insert; it waits until no Ref into the map
\* is alive and replaces the handle the key has
streams_insert(t) ==
    /\ tasks[t].pc = "insert"
    /\ refs = {}
    /\ streams' = {t}
    /\ inserted' = inserted \cup {t}
    /\ Goto(t, "get")
    /\ UNCHANGED <<previous, calls, dbs, mutex, refs, user_dir, accepted,
                   deleted, file, file_exists, logvars, elsewhere>>

\* insert_event / insert_event_many: streams.get; the Ref lives until the
\* call returns
streams_get(t) ==
    /\ tasks[t].pc = "get"
    /\ IF streams = {}
       THEN /\ Return(t, "StreamNotFound", 0, NoExpected, 0)
            /\ UNCHANGED refs
       ELSE /\ tasks' = [tasks EXCEPT ![t] =
                           [@ EXCEPT !.db = streams, !.pc = "lock"]]
            /\ refs' = refs \cup {t}
            /\ UNCHANGED returned
    /\ UNCHANGED <<previous, calls, inserted, streams, dbs, mutex, user_dir,
                   accepted, deleted, file, file_exists, logvars, elsewhere>>

\* db.lock().await
lock(t) ==
    /\ tasks[t].pc = "lock"
    /\ mutex[handle(t)] = {}
    /\ mutex' = [mutex EXCEPT ![handle(t)] = {t}]
    /\ Goto(t, CASE tasks[t].op = "delete_stream" -> "delete"
                  [] tasks[t].op = "get_stream" -> "revision"
                  [] tasks[t].op = "get_event" -> "query"
                  [] OTHER -> "append")
    /\ UNCHANGED <<previous, calls, inserted, streams, dbs, refs, user_dir,
                   accepted, deleted, file, file_exists, logvars, elsewhere>>

\* Database::append, first half: a Stopped Database is started
append_start(t) ==
    /\ tasks[t].pc = "append"
    /\ LET h == handle(t)
           db == dbs[h]
           l == load(file, db.primary_index, db.source_id_index)
       IN  IF db.state = "Running"
           THEN /\ Goto(t, "write")
                /\ UNCHANGED <<dbs, mutex, refs, file_exists>>
           ELSE /\ file_exists' = TRUE
                /\ dbs' = [dbs EXCEPT ![h] =
                             [state |-> IF l.ok THEN "Running" ELSE "Stopped",
                              primary_index |-> l.primary_index,
                              source_id_index |-> l.source_id_index]]
                /\ IF l.ok
                   THEN /\ Goto(t, "write")
                        /\ UNCHANGED <<mutex, refs>>
                   ELSE /\ Return(t, "DecodeFailed", 0, NoExpected, 0)
                        /\ mutex' = [mutex EXCEPT ![h] = {}]
                        /\ refs' = refs \ {t}
    /\ UNCHANGED <<previous, calls, inserted, streams, user_dir, accepted,
                   deleted, file, logvars, elsewhere>>

\* Database::append, second half: insert_batch on the started Database; the
\* call returns, the Mutex and the Ref are released
append_insert(t, events, expected) ==
    /\ tasks[t].pc = "write"
    /\ tasks[t].op = "insert_event" => Len(events) = 1
    /\ LET h == handle(t)
           db == dbs[h]
           b == serialize(events, <<>>, <<>>)
           ix == index_loop(events, b.event_lengths, db.primary_index,
                            db.source_id_index, Len(file), 0)
           status ==
               IF events = <<>> THEN "EmptyList"
               ELSE IF ~revision_match(db.primary_index, expected)
               THEN "RevisionMismatch"
               ELSE IF source_id_conflict(db.source_id_index, events)
               THEN "SourceIdConflict"
               ELSE "Ok"
       IN  /\ IF status = "Ok"
              THEN /\ file' = file \o b.bytes
                   /\ file_exists' = TRUE
                   /\ dbs' = [dbs EXCEPT ![h] =
                                [@ EXCEPT
                                   !.primary_index = ix.primary_index,
                                   !.source_id_index = ix.source_id_index]]
                   /\ accepted' = Append(accepted, [expected |-> expected,
                                                    events |-> events])
              ELSE UNCHANGED <<file, file_exists, dbs, accepted>>
           /\ Return(t, status, IF status = "Ok" THEN ix.last_revision ELSE 0,
                     expected, Len(lines(file)))
           /\ mutex' = [mutex EXCEPT ![h] = {}]
           /\ refs' = refs \ {t}
    /\ UNCHANGED <<previous, calls, inserted, streams, user_dir, deleted,
                   logvars, elsewhere>>

\* delete_stream: streams.remove; it waits until no Ref into the map is alive
streams_remove(t) ==
    /\ MayCall(t)
    /\ refs = {}
    /\ deleted' = TRUE
    /\ streams' = {}
    /\ IF streams = {}
       THEN /\ tasks' = [tasks EXCEPT ![t] = [NoTask EXCEPT !.pc = "done"]]
            /\ returned' = Returned(t, "delete_stream", "Ok", 0, NoExpected, 0)
       ELSE /\ tasks' = [tasks EXCEPT ![t] =
                           [@ EXCEPT !.op = "delete_stream", !.db = streams,
                                     !.pc = "lock"]]
            /\ UNCHANGED returned
    /\ UNCHANGED <<previous, calls, inserted, dbs, mutex, refs, user_dir,
                   accepted, file, file_exists, logvars, elsewhere>>

\* db.delete() that clears the indexes and leaves the record file in place
db_delete_keeps_file(t) ==
    /\ tasks[t].pc = "delete"
    /\ dbs' = [dbs EXCEPT ![handle(t)] =
                 [@ EXCEPT !.primary_index = EmptyMap,
                           !.source_id_index = EmptyMap]]
    /\ Return(t, "Ok", 1, NoExpected, 0)
    /\ mutex' = [mutex EXCEPT ![handle(t)] = {}]
    /\ UNCHANGED <<previous, calls, inserted, streams, refs, user_dir,
                   accepted, deleted, file, file_exists, logvars, elsewhere>>

\* delete_stream: db.delete() under the Mutex of the removed handle
db_delete(t) ==
    /\ tasks[t].pc = "delete"
    /\ LET h == handle(t)
       IN  /\ IF file_exists
              THEN /\ file_exists' = FALSE
                   /\ file' = <<>>
                   /\ dbs' = [dbs EXCEPT ![h] =
                                [@ EXCEPT !.primary_index = EmptyMap,
                                          !.source_id_index = EmptyMap]]
                   /\ Return(t, "Ok", 1, NoExpected, 0)
              ELSE /\ Return(t, "IoError", 0, NoExpected, 0)
                   /\ UNCHANGED <<file_exists, file, dbs>>
           /\ mutex' = [mutex EXCEPT ![h] = {}]
    /\ UNCHANGED <<previous, calls, inserted, streams, refs, user_dir,
                   accepted, deleted, logvars, elsewhere>>

\* one step of an insert_event, insert_event_many or delete_stream call
RegStep(t) ==
    \/ \E op \in {"insert_event", "insert_event_many"} : contains_key(t, op)
    \/ create_dir_all(t)
    \/ streams_insert(t)
    \/ streams_get(t)
    \/ lock(t)
    \/ append_start(t)
    \/ \E events \in RegBatches, expected \in RegExpected :
           append_insert(t, events, expected)
    \/ streams_remove(t)
    \/ db_delete(t)

RegNext == \E t \in Tasks : RegStep(t)

SpecRegistry == Init /\ [][RegNext]_vars

\* ------------------------------------------------- one caller, call by call
\* the caller has the result of its call and is ready for the next call
finish(t) ==
    /\ tasks[t].pc = "done"
    /\ calls + 1 < MaxCalls
    /\ calls' = calls + 1
    /\ previous' = returned
    /\ tasks' = [tasks EXCEPT ![t] = NoTask]
    /\ UNCHANGED <<streams, dbs, mutex, refs, user_dir, returned, accepted,
                   inserted, deleted, file, file_exists, logvars, elsewhere>>

\* get_stream / get_event enter: the call goes on with streams.get
call_read(t, op) ==
    /\ MayCall(t)
    /\ tasks' = [tasks EXCEPT ![t] = [@ EXCEPT !.op = op, !.pc = "get"]]
    /\ UNCHANGED <<streams, dbs, mutex, refs, user_dir, returned, previous,
                   calls, accepted, inserted, deleted, file, file_exists,
                   logvars, elsewhere>>

\* get_stream under the Mutex: revision, last_modified (the metadata of the
\* record file) and the file length; the call returns the revision
get_stream(t) ==
    /\ tasks[t].pc = "revision"
    /\ IF file_exists
       THEN Return(t, "Ok", revision(dbs[handle(t)].primary_index),
                   NoExpected, 0)
       ELSE Return(t, "IoError", 0, NoExpected, 0)
    /\ mutex' = [mutex EXCEPT ![handle(t)] = {}]
    /\ refs' = refs \ {t}
    /\ UNCHANGED <<streams, dbs, user_dir, previous, calls, accepted,
                   inserted, deleted, file, file_exists, logvars, elsewhere>>

\* get_event under the Mutex: the range read of one row, as query_many of
\* db.rs does it; the call returns the event read, if any
get_event(t, rownum) ==
    /\ tasks[t].pc = "query"
    /\ LET db == dbs[handle(t)]
           r == IF db.state # "Running"
                THEN [status |-> "Stopped", events |-> <<>>]
                ELSE IF rownum \notin DOMAIN db.primary_index
                THEN [status |-> "Ok", events |-> <<>>]
                ELSE read_rows(file, db.primary_index[rownum], 1)
       IN  /\ tasks' = [tasks EXCEPT ![t] = [NoTask EXCEPT !.pc = "done"]]
           /\ returned' =
                  [Returned(t, "get_event", r.status, rownum, NoExpected, 0)
                     EXCEPT !.events = r.events]
           /\ file_exists' = (file_exists \/ db.state = "Running")
    /\ mutex' = [mutex EXCEPT ![handle(t)] = {}]
    /\ refs' = refs \ {t}
    /\ UNCHANGED <<streams, dbs, user_dir, previous, calls, accepted,
                   inserted, deleted, file, logvars, elsewhere>>

\* one step of a get_stream or get_event call
ReadStep(t) ==
    \/ \E op \in {"get_stream", "get_event"} : call_read(t, op)
    \/ get_stream(t)
    \/ \E rownum \in 0..MaxLimit : get_event(t, rownum)

\* the first task makes its calls one after another, no other task runs
SerialNext ==
    \/ RegStep(1)
    \/ ReadStep(1)
    \/ finish(1)

SpecSerial == Init /\ [][SerialNext]_vars

\* ------------------------------------------------- the streams directory
\* The registry over several (user, stream) keys and the directory tree
\* under streams_path: one directory per user, one record file per stream,
\* named by the BASE32-NOPAD encoding of the stream ID.  Names are sequences
\* of characters, stream IDs sequences of bytes.

\* the 32 symbols of BASE32, in the order of their values
Base32Symbols ==
    <<"A", "B", "C", "D", "E", "F", "G", "H", "I", "J", "K", "L", "M", "N",
      "O", "P", "Q", "R", "S", "T", "U", "V", "W", "X", "Y", "Z", "2", "3",
      "4", "5", "6", "7">>

\* n written as width bits, most significant first
RECURSIVE to_bits(_, _)
to_bits(n, width) ==
    IF width = 0 THEN <<>> ELSE Append(to_bits(n \div 2, width - 1), n % 2)

\* the number a sequence of bits writes
RECURSIVE from_bits(_)
from_bits(bits) ==
    IF bits = <<>> THEN 0
    ELSE 2 * from_bits(SubSeq(bits, 1, Len(bits) - 1)) + bits[Len(bits)]

\* the bits of a sequence of numbers, each written as width bits
RECURSIVE all_bits(_, _)
all_bits(ns, width) ==
    IF ns = <<>> THEN <<>>
    ELSE to_bits(Head(ns), width) \o all_bits(Tail(ns), width)

\* the numbers a sequence of bits writes in groups of width bits, the last
\* group filled up with zero bits
RECURSIVE groups(_, _)
groups(bits, width) ==
    IF bits = <<>> THEN <<>>
    ELSE IF Len(bits) < width
    THEN <<from_bits(bits \o [i \in 1..(width - Len(bits)) |-> 0])>>
    ELSE <<from_bits(SubSeq(bits, 1, width))>>
             \o groups(SubSeq(bits, width + 1, Len(bits)), width)

\* BASE32_NOPAD.encode
base32_encode(bytes) ==
    LET values == groups(all_bits(bytes, 8), 5)
    IN  [i \in 1..Len(values) |-> Base32Symbols[values[i] + 1]]

\* BASE32_NOPAD.decode: an error on a character that is no symbol, on a
\* length no encoding has, and on trailing bits that are not zero
base32_decode(name) ==
    LET symbol(c) == {v \in 1..32 : Base32Symbols[v] = c}
        known == \A i \in 1..Len(name) : symbol(name[i]) # {}
        values == [i \in 1..Len(name) |->
                      (CHOOSE v \in symbol(name[i]) : TRUE) - 1]
        bits == all_bits(values, 5)
        whole == 8 * (Len(bits) \div 8)
        trailing == SubSeq(bits, whole + 1, Len(bits))
    IN  IF ~known \/ (Len(name) % 8) \in {1, 3, 6}
        THEN [ok |-> FALSE, bytes |-> <<>>]
        ELSE IF \E i \in 1..Len(trailing) : trailing[i] # 0
        THEN [ok |-> FALSE, bytes |-> <<>>]
        ELSE [ok |-> TRUE, bytes |-> groups(SubSeq(bits, 1, whole), 8)]

\* str::from_utf8, for sequences of one-byte and two-byte characters
RECURSIVE from_utf8(_)
from_utf8(bytes) ==
    IF bytes = <<>> THEN TRUE
    ELSE IF Head(bytes) < 128 THEN from_utf8(Tail(bytes))
    ELSE /\ Head(bytes) \in 194..223
         /\ Len(bytes) >= 2
         /\ bytes[2] \in 128..191
         /\ from_utf8(Tail(Tail(bytes)))

\* Path::file_stem: the name up to its last dot, the whole name when it has
\* no dot or only a leading one
file_stem(name) ==
    LET dots == {i \in 2..Len(name) : name[i] = "."}
    IN  IF dots = {} THEN name
        ELSE SubSeq(name, 1, SetMax(dots) - 1)

\* the stream ID a file name of the streams directory stands for
decode_stream_id(name) ==
    LET d == base32_decode(name)
    IN  [ok |-> d.ok /\ from_utf8(d.bytes), stream_id |-> d.bytes]

\* the directory a file system keeps for recovered files
LostFound == <<"l", "o", "s", "t", "+", "f", "o", "u", "n", "d">>

\* entries something other than the program has put under streams_path: a
\* recovered file, a name that is not BASE32, a name that decodes to a byte
\* sequence that is not UTF-8
ForeignEntries ==
    {<<LostFound, <<"#", "1">>>>, <<<<"u">>, <<"P", "1">>>>,
     <<<<"u">>, <<"7", "4">>>>}

\* the record file named after the stream alone, in one shared directory
db_path_without_user(key) == <<<<"u">>, base32_encode(key[2])>>

\* initialize_database: the path of the record file of a key
db_path(key) == <<key[1], base32_encode(key[2])>>

\* a map without one of its keys
map_remove(m, k) == [x \in (DOMAIN m) \ {k} |-> m[x]]

\* Database::append of the events to the Database db over the record file
\* f: a Stopped Database is started, then the batch is inserted
append(db, f, events, expected) ==
    LET l == IF db.state = "Running"
             THEN [ok |-> TRUE, primary_index |-> db.primary_index,
                   source_id_index |-> db.source_id_index]
             ELSE load(f, db.primary_index, db.source_id_index)
        b == serialize(events, <<>>, <<>>)
        ix == index_loop(events, b.event_lengths, l.primary_index,
                         l.source_id_index, Len(f), 0)
        status ==
            IF ~l.ok THEN "DecodeFailed"
            ELSE IF events = <<>> THEN "EmptyList"
            ELSE IF ~revision_match(l.primary_index, expected)
            THEN "RevisionMismatch"
            ELSE IF source_id_conflict(l.source_id_index, events)
            THEN "SourceIdConflict"
            ELSE "Ok"
    IN  IF status = "Ok"
        THEN [status |-> "Ok", value |-> ix.last_revision,
              file |-> f \o b.bytes,
              db |-> [state |-> "Running",
                      primary_index |-> ix.primary_index,
                      source_id_index |-> ix.source_id_index]]
        ELSE [status |-> status, value |-> 0, file |-> f,
              db |-> [state |-> IF l.ok THEN "Running" ELSE "Stopped",
                      primary_index |-> l.primary_index,
                      source_id_index |-> l.source_id_index]]

\* Database::revision as get_stream awaits it: the row number of the last
\* event of the stream, read from the record file when the Database has not
\* loaded it
revision_await(db, f) ==
    IF db.state = "Running" THEN revision(db.primary_index)
    ELSE revision(load(f, EmptyMap, EmptyMap).primary_index)

\* AppState::insert_event, the whole call: initialize_database, streams.get,
\* lock, append
insert_event(user_id, stream_id, event, expected) ==
    /\ up
    /\ made < MaxCalls
    /\ LET key == <<user_id, stream_id>>
           p == db_path(key)
           init_db == key \notin DOMAIN stream_map
           db == IF init_db THEN NewDatabase ELSE stream_map[key]
           f == IF p \in DOMAIN files THEN files[p] ELSE <<>>
           a == append(db, f, <<event>>, expected)
       IN  /\ dirs' = IF init_db THEN dirs \cup {user_id} ELSE dirs
           /\ stream_map' = map_insert(stream_map, key, a.db)
           /\ files' = map_insert(files, p, a.file)
           /\ appended' = IF a.status = "Ok"
                          THEN [appended EXCEPT ![key] = Append(@, event)]
                          ELSE appended
           /\ answer' = Answer("insert_event", user_id, a.status, a.value, {})
    /\ made' = made + 1
    /\ UNCHANGED <<up, beside_scan>>

\* AppState::delete_stream, the whole call: streams.remove, lock, db.delete
delete_stream(user_id, stream_id) ==
    /\ up
    /\ made < MaxCalls
    /\ LET key == <<user_id, stream_id>>
           p == db_path(key)
       IN  IF key \notin DOMAIN stream_map
           THEN /\ answer' = Answer("delete_stream", user_id, "Ok", 0, {})
                /\ UNCHANGED <<stream_map, files, appended>>
           ELSE /\ stream_map' = map_remove(stream_map, key)
                /\ IF p \in DOMAIN files
                   THEN /\ files' = map_remove(files, p)
                        /\ appended' = [appended EXCEPT ![key] = <<>>]
                        /\ answer' =
                               Answer("delete_stream", user_id, "Ok", 1, {})
                   ELSE /\ answer' =
                               Answer("delete_stream", user_id, "IoError", 0,
                                      {})
                        /\ UNCHANGED <<files, appended>>
    /\ made' = made + 1
    /\ UNCHANGED <<dirs, up, beside_scan>>

\* the names of the entries of a directory
read_dir(d) == {p[2] : p \in {q \in DOMAIN files : q[1] = d}}

\* AppState::get_stream as streams calls it: Ok when the registry has the
\* key and the metadata of its record file can be read
get_stream_ok(key) == key \in DOMAIN stream_map /\ db_path(key) \in DOMAIN files

\* streams listing every stream file of the user's directory, whether the
\* registry has a handle for it or not
list_streams_by_directory(user_id) ==
    /\ up
    /\ made < MaxCalls
    /\ LET names == read_dir(user_id)
           id(n) == decode_stream_id(file_stem(n))
           summary(n) ==
               [name |-> n, id |-> id(n).stream_id,
                revision |-> revision_await(NewDatabase, files[<<user_id, n>>])]
       IN  IF user_id \notin dirs
           THEN answer' = Answer("streams", user_id, "IoError", 0, {})
           ELSE IF \E n \in names : ~id(n).ok
           THEN answer' = Answer("streams", user_id, "DecodeError", 0, {})
           ELSE answer' = Answer("streams", user_id, "Ok", 0,
                                 {summary(n) : n \in names})
    /\ made' = made + 1
    /\ UNCHANGED <<dirs, files, stream_map, up, appended, beside_scan>>

\* AppState::streams: the entries of the user's directory, decoded, and the
\* summary of each stream get_stream returns one for
list_streams(user_id) ==
    /\ up
    /\ made < MaxCalls
    /\ LET names == read_dir(user_id)
           id(n) == decode_stream_id(file_stem(n))
           found == {n \in names : get_stream_ok(<<user_id, id(n).stream_id>>)}
           summary(n) ==
               LET key == <<user_id, id(n).stream_id>>
               IN  [name |-> n, id |-> id(n).stream_id,
                    revision |-> revision_await(stream_map[key],
                                                files[db_path(key)])]
       IN  IF user_id \notin dirs
           THEN answer' = Answer("streams", user_id, "IoError", 0, {})
           ELSE IF \E n \in names : ~id(n).ok
           THEN answer' = Answer("streams", user_id, "DecodeError", 0, {})
           ELSE answer' = Answer("streams", user_id, "Ok", 0,
                                 {summary(n) : n \in found})
    /\ made' = made + 1
    /\ UNCHANGED <<dirs, files, stream_map, up, appended, beside_scan>>

\* AppState::new on the streams directory as it is: a restart.  Every entry
\* of every directory other than lost+found is decoded and registered; the
\* first entry that does not decode ends the scan with an error, after the
\* entries read before it have had their user directories created
AppState_new ==
    /\ made < MaxCalls
    /\ LET entries == {p \in DOMAIN files : file_stem(p[1]) # LostFound}
           bad == {p \in entries : ~decode_stream_id(p[2]).ok}
           key(p) == <<file_stem(p[1]), decode_stream_id(p[2]).stream_id>>
           keys == {key(p) : p \in entries \ bad}
       IN  IF bad = {}
           THEN /\ up' = TRUE
                /\ stream_map' = [k \in keys |-> NewDatabase]
                /\ dirs' = dirs \cup {k[1] : k \in keys}
                /\ answer' = Answer("new", <<>>, "Ok", 0, {})
           ELSE /\ up' = FALSE
                /\ stream_map' = EmptyMap
                /\ \E before \in SUBSET keys :
                       dirs' = dirs \cup {k[1] : k \in before}
                /\ answer' = Answer("new", <<>>, "DecodeError", 0, {})
    /\ made' = made + 1
    /\ UNCHANGED <<files, appended, beside_scan>>

\* an entry appears under streams_path that the program did not write
foreign_entry(p) ==
    /\ made < MaxCalls
    /\ p \notin DOMAIN files
    /\ dirs' = dirs \cup {p[1]}
    /\ files' = map_insert(files, p, <<>>)
    /\ made' = made + 1
    /\ UNCHANGED <<stream_map, up, answer, appended, beside_scan>>

\* the expected revisions handed to insert_event
ScanExpected == {[tag |-> "Any", n |-> 0], [tag |-> "Exact", n |-> 0]}

ScanNext ==
    \/ \E user_id \in UserIds, stream_id \in StreamIds, event \in Events,
          expected \in ScanExpected :
           insert_event(user_id, stream_id, event, expected)
               /\ UNCHANGED <<apivars, cachevars>>
    \/ \E user_id \in UserIds, stream_id \in StreamIds :
           delete_stream(user_id, stream_id) /\ UNCHANGED <<apivars, cachevars>>
    \/ \E user_id \in UserIds : list_streams(user_id) /\ UNCHANGED <<apivars, cachevars>>
    \/ AppState_new /\ UNCHANGED <<apivars, cachevars>>
    \/ \E p \in ForeignEntries : foreign_entry(p) /\ UNCHANGED <<apivars, cachevars>>

SpecScan == Init /\ [][ScanNext]_vars

\* ------------------------------------------- the futures on the workers
\* the calls whose Ref is a read lock on the shard of key k
shard_readers(k) ==
    {t \in held_refs : futures[t].key = k \/ same_shard = "yes"}

\* the handle a call holds
held(t) == CHOOSE h \in futures[t].handle : TRUE

\* the call is on a worker thread
polled(t, label) == t \in workers /\ futures[t].pc = label

\* the future of the call goes on, on its worker thread
step(t, label) == futures' = [futures EXCEPT ![t].pc = label]

\* AppState::new: DashMap::new seeds the hasher that assigns the keys to
\* the shards, and the scan registers the keys it finds on disk
DashMap_new(shared) ==
    /\ same_shard = "unset"
    /\ same_shard' = shared
    /\ registry' = [k \in RtKeys |-> IF k \in Found THEN {<<k, 0>>} ELSE {}]
    /\ UNCHANGED <<futures, workers, held_refs, guards, beside_runtime>>

\* a facade call is made: its future is spawned
spawn(t, op, key) ==
    /\ futures[t].pc = "idle"
    /\ same_shard # "unset"
    /\ \A u \in Callers : u < t => futures[u].pc # "idle"
    /\ futures' = [futures EXCEPT ![t] =
                      [op |-> op, key |-> key, handle |-> {},
                       pc |-> CASE op = "insert_event" -> "contains_key"
                                [] op = "delete_stream" -> "remove"
                                [] OTHER -> "get"]]
    /\ UNCHANGED <<workers, registry, held_refs, guards, same_shard,
                   beside_runtime>>

\* a free worker thread takes a future that can go on: a new one, or one
\* whose Mutex has been released
schedule(t) ==
    /\ t \notin workers
    /\ Cardinality(workers) < MaxThreads
    /\ futures[t].pc \notin {"idle", "done"}
    /\ futures[t].pc = "wait" => guards[held(t)] = {}
    /\ workers' = workers \cup {t}
    /\ futures' = [futures EXCEPT
                      ![t].pc = IF @ = "wait" THEN "lock" ELSE @]
    /\ UNCHANGED <<registry, held_refs, guards, same_shard, beside_runtime>>

\* initialize_database: contains_key
poll_contains_key(t) ==
    /\ polled(t, "contains_key")
    /\ step(t, IF registry[futures[t].key] = {} THEN "insert" ELSE "get")
    /\ UNCHANGED <<workers, registry, held_refs, guards, same_shard,
                   beside_runtime>>

\* initialize_database: create_dir_all, Database::new, streams.insert; the
\* worker thread waits for the write lock of the shard
poll_insert(t) ==
    /\ polled(t, "insert")
    /\ shard_readers(futures[t].key) = {}
    /\ registry' = [registry EXCEPT ![futures[t].key] = {<<futures[t].key, t>>}]
    /\ step(t, "get")
    /\ UNCHANGED <<workers, held_refs, guards, same_shard, beside_runtime>>

\* streams.get: StreamNotFound, or a Ref to the handle, kept until the call
\* returns
poll_get(t) ==
    /\ polled(t, "get")
    /\ IF registry[futures[t].key] = {}
       THEN /\ futures' = [futures EXCEPT ![t] = Dropped]
            /\ workers' = workers \ {t}
            /\ UNCHANGED held_refs
       ELSE /\ futures' = [futures EXCEPT ![t].handle = registry[futures[t].key],
                                          ![t].pc = "lock"]
            /\ held_refs' = held_refs \cup {t}
            /\ UNCHANGED workers
    /\ UNCHANGED <<registry, guards, same_shard, beside_runtime>>

\* lock().await: the guard, or the future is suspended and its worker
\* thread is free for another future
poll_lock(t) ==
    /\ polled(t, "lock")
    /\ IF guards[held(t)] = {}
       THEN /\ guards' = [guards EXCEPT ![held(t)] = {t}]
            /\ step(t, "critical")
            /\ UNCHANGED workers
       ELSE /\ step(t, "wait")
            /\ workers' = workers \ {t}
            /\ UNCHANGED guards
    /\ UNCHANGED <<registry, held_refs, same_shard, beside_runtime>>

\* query, append or delete under the guard; then the guard and the Ref are
\* dropped and the call returns
poll_critical(t) ==
    /\ polled(t, "critical")
    /\ guards' = [guards EXCEPT ![held(t)] = {}]
    /\ held_refs' = held_refs \ {t}
    /\ futures' = [futures EXCEPT ![t] = Dropped]
    /\ workers' = workers \ {t}
    /\ UNCHANGED <<registry, same_shard, beside_runtime>>

\* delete_stream: streams.remove; the worker thread waits for the write
\* lock of the shard
poll_remove(t) ==
    /\ polled(t, "remove")
    /\ shard_readers(futures[t].key) = {}
    /\ IF registry[futures[t].key] = {}
       THEN /\ futures' = [futures EXCEPT ![t] = Dropped]
            /\ workers' = workers \ {t}
            /\ UNCHANGED registry
       ELSE /\ futures' = [futures EXCEPT ![t].handle = registry[futures[t].key],
                                          ![t].pc = "lock"]
            /\ registry' = [registry EXCEPT ![futures[t].key] = {}]
            /\ UNCHANGED workers
    /\ UNCHANGED <<held_refs, guards, same_shard, beside_runtime>>

\* what the runtime can do for the calls that have been made
RtPoll ==
    \E t \in Callers :
        \/ schedule(t)
        \/ poll_contains_key(t)
        \/ poll_insert(t)
        \/ poll_get(t)
        \/ poll_lock(t)
        \/ poll_critical(t)
        \/ poll_remove(t)

RtNext ==
    \/ \E shared \in {"yes", "no"} : DashMap_new(shared)
    \/ \E t \in Callers, op \in RtOps, key \in RtKeys : spawn(t, op, key)
    \/ \E t \in Callers : schedule(t)
    \/ \E t \in Callers : poll_contains_key(t)
    \/ \E t \in Callers : poll_insert(t)
    \/ \E t \in Callers : poll_get(t)
    \/ \E t \in Callers : poll_lock(t)
    \/ \E t \in Callers : poll_critical(t)
    \/ \E t \in Callers : poll_remove(t)

SpecRuntime == Init /\ [][RtNext]_vars


\* ------------------------------------------------------------ the HTTP API
\* The handlers of api.rs on the registry of the streams directory, one
\* request at a time: the auth layer, the handler's own checks, the facade
\* call, and the status code the handler answers with.

\* a bearer token: none in the request, one that fails validation, or a
\* valid one with the user in its sub claim
Tokens ==
    {[kind |-> "missing", sub |-> <<>>], [kind |-> "invalid", sub |-> <<>>],
     [kind |-> "valid", sub |-> <<"u">>]}

\* auth and authorize_current_user: the user of the request, or 401
auth(token) ==
    IF token.kind = "valid"
    THEN [ok |-> TRUE, user |-> token.sub]
    ELSE [ok |-> FALSE, user |-> <<>>]

\* the expected_revision query parameter: absent, or a string
ParamAny == <<"a", "n", "y">>
ParamNoStream == <<"n", "o", "-", "s", "t", "r", "e", "a", "m">>
ParamStreamExists ==
    <<"s", "t", "r", "e", "a", "m", "-", "e", "x", "i", "s", "t", "s">>
Params ==
    {{}, {ParamAny}, {ParamNoStream}, {ParamStreamExists}, {<<"1">>},
     {<<"+", "1">>}, {<<"l", "a", "t", "e", "s", "t">>}}

Digits == <<"0", "1", "2", "3", "4", "5", "6", "7", "8", "9">>

is_digit(c) == \E i \in DOMAIN Digits : Digits[i] = c

to_digit(c) == (CHOOSE i \in DOMAIN Digits : Digits[i] = c) - 1

RECURSIVE from_digits(_, _)
from_digits(s, acc) ==
    IF s = <<>> THEN acc
    ELSE from_digits(Tail(s), acc * 10 + to_digit(Head(s)))

\* str::parse::<u64> on the short strings of Params: an optional plus sign,
\* then one digit or more
parse_u64(s) ==
    LET d == IF s # <<>> /\ Head(s) = "+" THEN Tail(s) ELSE s
    IN  IF d = <<>> \/ \E i \in DOMAIN d : ~is_digit(d[i])
        THEN [ok |-> FALSE, n |-> 0]
        ELSE [ok |-> TRUE, n |-> from_digits(d, 0)]

parse_expected_revision(expected_revision) ==
    CASE expected_revision = ParamAny ->
             [ok |-> TRUE, revision |-> [tag |-> "Any", n |-> 0]]
      [] expected_revision = ParamNoStream ->
             [ok |-> TRUE, revision |-> [tag |-> "NoStream", n |-> 0]]
      [] expected_revision = ParamStreamExists ->
             [ok |-> TRUE, revision |-> [tag |-> "StreamExists", n |-> 0]]
      [] OTHER ->
             LET exact == parse_u64(expected_revision)
             IN  [ok |-> exact.ok,
                  revision |-> [tag |-> "Exact", n |-> exact.n]]

\* the request did not get past auth: 401, and no facade call
unauthorized(handler) ==
    /\ up
    /\ made < MaxCalls
    /\ made' = made + 1
    /\ response' = Response(handler, FALSE, 401, "none", FALSE)
    /\ UNCHANGED <<dirs, files, stream_map, up, answer, appended, beside_scan>>

\* a handler that answers without changing the registry or the files
answers(handler, code, outcome, registered) ==
    /\ up
    /\ made < MaxCalls
    /\ made' = made + 1
    /\ response' = Response(handler, TRUE, code, outcome, registered)
    /\ UNCHANGED <<dirs, files, stream_map, up, answer, appended, beside_scan>>

\* the status post_event answers an outcome of the append with
post_event_status(outcome) ==
    CASE outcome = "Ok" -> 201
      [] outcome \in {"RevisionMismatch", "SourceIdConflict", "Stopped"} -> 409
      [] OTHER -> 500

\* post_event with a single event as the payload
post_event(token, stream_id, param, event) ==
    LET a == auth(token)
        revision_param == IF param = {} THEN ParamAny
                          ELSE CHOOSE s \in param : TRUE
        revision_result == parse_expected_revision(revision_param)
        key == <<a.user, stream_id>>
    IN  IF ~a.ok THEN unauthorized("post_event")
        ELSE IF ~revision_result.ok
        THEN answers("post_event", 401, "InvalidParameter",
                     key \in DOMAIN stream_map)
        ELSE /\ insert_event(a.user, stream_id, event, revision_result.revision)
             /\ response' = Response("post_event", TRUE,
                                     post_event_status(answer'.status),
                                     answer'.status,
                                     key \in DOMAIN stream_map)

\* Database::query as the facade awaits it: how many events the range read
\* of up to limit rows from row start_row on returns, or that the stream cannot be
\* read
query_await(db, f, start_row, limit) ==
    LET l == IF db.state = "Running"
             THEN [ok |-> TRUE, primary_index |-> db.primary_index]
             ELSE load(f, EmptyMap, EmptyMap)
        rows == {r \in DOMAIN l.primary_index : r >= start_row}
    IN  [ok |-> l.ok,
         count |-> IF Cardinality(rows) < limit THEN Cardinality(rows)
                   ELSE limit]

\* AppState::get_event_many, and AppState::get_event with limit 1
get_event_many(user_id, stream_id, start_row, limit) ==
    LET key == <<user_id, stream_id>>
        p == db_path(key)
    IN  IF key \notin DOMAIN stream_map
        THEN [status |-> "StreamNotFound", count |-> 0]
        ELSE IF p \notin DOMAIN files
        THEN [status |-> "IoError", count |-> 0]
        ELSE LET q == query_await(stream_map[key], files[p], start_row, limit)
             IN  [status |-> IF q.ok THEN "Ok" ELSE "DecodeFailed",
                  count |-> q.count]

\* the handler of GET /streams/:stream/events/:rownum
api_get_event(token, stream_id, rownum) ==
    LET a == auth(token)
        key == <<a.user, stream_id>>
        event_result == get_event_many(a.user, stream_id, rownum, 1)
    IN  IF ~a.ok THEN unauthorized("get_event")
        ELSE answers("get_event",
                     CASE event_result.status = "Ok" ->
                              IF event_result.count = 1 THEN 200 ELSE 404
                       [] event_result.status = "StreamNotFound" -> 404
                       [] OTHER -> 500,
                     event_result.status, key \in DOMAIN stream_map)

\* the handler of GET /streams/:stream/events
get_event_index(token, stream_id, start_row, limit) ==
    LET a == auth(token)
        key == <<a.user, stream_id>>
        events_result == get_event_many(a.user, stream_id, start_row, limit)
    IN  IF ~a.ok THEN unauthorized("get_event_index")
        ELSE answers("get_event_index",
                     IF events_result.status = "Ok" THEN 200 ELSE 500,
                     events_result.status, key \in DOMAIN stream_map)

\* the handler of GET /streams/:stream
api_get_stream(token, stream_id) ==
    LET a == auth(token)
        key == <<a.user, stream_id>>
        get_result == IF key \notin DOMAIN stream_map THEN "StreamNotFound"
                      ELSE IF db_path(key) \notin DOMAIN files THEN "IoError"
                      ELSE "Ok"
    IN  IF ~a.ok THEN unauthorized("get_stream")
        ELSE answers("get_stream",
                     CASE get_result = "Ok" -> 200
                       [] get_result = "StreamNotFound" -> 404
                       [] OTHER -> 500,
                     get_result, key \in DOMAIN stream_map)

\* the handler of DELETE /streams/:stream
api_delete_stream(token, stream_id) ==
    LET a == auth(token)
        key == <<a.user, stream_id>>
    IN  IF ~a.ok THEN unauthorized("delete_stream")
        ELSE /\ delete_stream(a.user, stream_id)
             /\ response' = Response("delete_stream", TRUE,
                                     IF answer'.status # "Ok" THEN 500
                                     ELSE IF answer'.value = 1 THEN 204
                                     ELSE 404,
                                     answer'.status,
                                     key \in DOMAIN stream_map)

ApiNext ==
    \/ \E token \in Tokens, stream_id \in StreamIds, param \in Params,
          event \in Events :
           post_event(token, stream_id, param, event) /\ UNCHANGED cachevars
    \/ \E token \in Tokens, stream_id \in StreamIds, rownum \in 0..MaxLimit :
           api_get_event(token, stream_id, rownum) /\ UNCHANGED cachevars
    \/ \E token \in Tokens, stream_id \in StreamIds,
          start_row \in 0..MaxLimit, limit \in 1..MaxLimit :
           get_event_index(token, stream_id, start_row, limit)
               /\ UNCHANGED cachevars
    \/ \E token \in Tokens, stream_id \in StreamIds :
           api_get_stream(token, stream_id) /\ UNCHANGED cachevars
    \/ \E token \in Tokens, stream_id \in StreamIds :
           api_delete_stream(token, stream_id) /\ UNCHANGED cachevars

SpecApi == Init /\ [][ApiNext]_vars

\* --------------------------------------------- the bodies of the reads
\* The read handlers of api.rs again, now with the events of the body and
\* the Cache-Control header they answer with.

\* Database::query(start, limit) as the facade awaits it: the events of up
\* to limit rows from row start_row on
query_events(db, f, start_row, limit) ==
    LET l == IF db.state = "Running"
             THEN [ok |-> TRUE, primary_index |-> db.primary_index]
             ELSE load(f, EmptyMap, EmptyMap)
    IN  IF ~l.ok \/ start_row \notin DOMAIN l.primary_index THEN <<>>
        ELSE read_rows(f, l.primary_index[start_row], limit).events

\* the events AppState::get_event_many hands to the handler
events_result(user_id, stream_id, start_row, limit) ==
    LET key == <<user_id, stream_id>>
        p == db_path(key)
    IN  IF key \in DOMAIN stream_map /\ p \in DOMAIN files
        THEN query_events(stream_map[key], files[p], start_row, limit)
        ELSE <<>>

\* a response marked immutable is kept by the caches that see it
remember(c, sv) ==
    IF sv.cache_control = "immutable" /\ sv.request \notin DOMAIN c
    THEN map_insert(c, sv.request, sv.events)
    ELSE c

\* get_event: 200 carries the event and the immutable header, 404 carries no
\* Cache-Control header, 500 carries no-cache
get_event_response(token, stream_id, rownum) ==
    /\ api_get_event(token, stream_id, rownum)
    /\ LET user_id == auth(token).user
           found == response'.code = 200
       IN  served' =
               Served(Request("get_event", user_id, stream_id, rownum, 1),
                      response'.code,
                      IF found
                      THEN events_result(user_id, stream_id, rownum, 1)
                      ELSE <<>>,
                      CASE found -> "immutable"
                        [] response'.code = 500 -> "no-cache"
                        [] OTHER -> "none")
    /\ cached' = remember(cached, served')

\* get_event_index: a page of exactly limit events is immutable, a shorter
\* one and an error are no-cache
get_event_index_response(token, stream_id, start_row, limit) ==
    /\ get_event_index(token, stream_id, start_row, limit)
    /\ LET user_id == auth(token).user
           events == IF response'.code = 200
                     THEN events_result(user_id, stream_id, start_row, limit)
                     ELSE <<>>
       IN  served' =
               Served(Request("get_event_index", user_id, stream_id,
                              start_row, limit),
                      response'.code, events,
                      CASE response'.code = 200 /\ Len(events) = limit ->
                               "immutable"
                        [] response'.code = 401 -> "none"
                        [] OTHER -> "no-cache")
    /\ cached' = remember(cached, served')

CacheNext ==
    \/ \E token \in Tokens, stream_id \in StreamIds, event \in Events :
           post_event(token, stream_id, {}, event) /\ UNCHANGED cachevars
    \/ \E token \in Tokens, stream_id \in StreamIds, rownum \in 0..MaxLimit :
           get_event_response(token, stream_id, rownum)
    \/ \E token \in Tokens, stream_id \in StreamIds,
          start_row \in 0..MaxLimit, limit \in 1..MaxLimit :
           get_event_index_response(token, stream_id, start_row, limit)
    \/ \E token \in Tokens, stream_id \in StreamIds :
           api_delete_stream(token, stream_id) /\ UNCHANGED cachevars

SpecCache == Init /\ [][CacheNext]_vars

\* ------------------------------------------------------ the OpenID client
\* OpenIdClient of openid.rs: the cached OIDC configuration and JWKS, their
\* last-updated times, and the clock. Time is counted in units of 12 hours.

\* Duration::from_secs(24 * 60 * 60)
oidc_config_max_age == 2
jwks_max_age == 2

\* what the issuer serves at .well-known/openid-configuration
OpenIdConfigurations ==
    {[issuer |-> "i1", jwks_uri |-> "j1"], [issuer |-> "i2", jwks_uri |-> "j2"]}

\* the key ids of tokens and of the keys of a JWKS response
Kids == {"kid1", "kid2"}

\* the outcome of a GET and its decoding: {} when it failed, {body} otherwise
ConfigFetches == {{}} \cup {{c} : c \in OpenIdConfigurations}
KeysFetches == {{}} \cup {{ks} : ks \in SUBSET Kids}

\* std::mem::swap(&mut cache.as_ref(), &mut value.as_ref()): both arguments
\* are temporaries of type Option<&T> made by as_ref(); the two temporaries
\* are exchanged and dropped, the Option behind the guard keeps its value
swap_as_ref(cache, value) == cache

\* refresh_oidc_config with the given outcome of the fetch
refresh_oidc_config(fetch) ==
    LET should_refresh ==
            IF oidc_config_last_updated # {}
            THEN \E last_updated \in oidc_config_last_updated :
                     now - last_updated > oidc_config_max_age
            ELSE TRUE
    IN  IF ~should_refresh
        THEN [ok |-> TRUE, fetch |-> "no", oidc_config |-> oidc_config,
              last_updated |-> oidc_config_last_updated]
        ELSE IF fetch = {}
        THEN [ok |-> FALSE, fetch |-> "failed", oidc_config |-> oidc_config,
              last_updated |-> oidc_config_last_updated]
        ELSE [ok |-> TRUE, fetch |-> "ok",
              oidc_config |-> swap_as_ref(oidc_config, fetch),
              last_updated |-> swap_as_ref(oidc_config_last_updated, {now})]

\* refresh_keys with the given outcome of the fetch; unwrap() of an empty
\* cache panics
refresh_keys(kid, fetch) ==
    LET panics == jwks_last_updated # {} /\ jwks = {}
        should_refresh ==
            IF jwks_last_updated # {}
            THEN \/ \E last_updated \in jwks_last_updated :
                        now - last_updated > jwks_max_age
                 \/ \A keys \in jwks : kid \notin keys
            ELSE TRUE
    IN  IF panics /\ ~(\E last_updated \in jwks_last_updated :
                           now - last_updated > jwks_max_age)
        THEN [ok |-> FALSE, fetch |-> "panic", jwks |-> jwks,
              last_updated |-> jwks_last_updated]
        ELSE IF ~should_refresh
        THEN [ok |-> TRUE, fetch |-> "no", jwks |-> jwks,
              last_updated |-> jwks_last_updated]
        ELSE IF fetch = {}
        THEN [ok |-> FALSE, fetch |-> "failed", jwks |-> jwks,
              last_updated |-> jwks_last_updated]
        ELSE [ok |-> TRUE, fetch |-> "ok", jwks |-> swap_as_ref(jwks, fetch),
              last_updated |-> swap_as_ref(jwks_last_updated, {now})]

\* authorize_current_user for a token with the given key id: refresh the
\* configuration, take it from the cache, find the key, validate the token
authorize_current_user(kid, valid, config_fetch, keys_fetch) ==
    LET c == refresh_oidc_config(config_fetch)
        k == refresh_keys(kid, keys_fetch)
        result(status, with_keys) ==
            Authorized(status, c.fetch, IF c.ok THEN "Ok" ELSE "Err",
                       IF with_keys THEN k.fetch ELSE "no",
                       IF ~with_keys THEN "none"
                       ELSE IF k.ok THEN "Ok" ELSE "Err",
                       now)
    IN  /\ Len(config_fetched) < MaxFetches
        /\ config_fetched' = IF c.fetch = "ok"
                             THEN Append(config_fetched, now)
                             ELSE config_fetched
        /\ oidc_config' = c.oidc_config
        /\ oidc_config_last_updated' = c.last_updated
        /\ IF ~c.ok \/ c.oidc_config = {}
           THEN /\ authorized' =
                       result(IF ~c.ok THEN "ConfigFetchFailed"
                              ELSE "ConfigNoneAfterRefresh", FALSE)
                /\ UNCHANGED <<jwks, jwks_last_updated>>
           ELSE /\ jwks' = k.jwks
                /\ jwks_last_updated' = k.last_updated
                /\ authorized' =
                       result(IF ~k.ok THEN "KeysFetchFailed"
                              ELSE IF k.jwks = {} THEN "KeysNoneAfterFetch"
                              ELSE IF \A keys \in k.jwks : kid \notin keys
                              THEN "KeyNotFound"
                              ELSE IF valid THEN "Ok" ELSE "DecodeFailed",
                              TRUE)
        /\ UNCHANGED <<now, beside_openid>>

\* time passes
tick ==
    /\ now < MaxClock
    /\ now' = now + 1
    /\ UNCHANGED <<oidc_config, oidc_config_last_updated, jwks,
                   jwks_last_updated, authorized, config_fetched,
                   beside_openid>>

OpenIdNext ==
    \/ \E kid \in Kids, valid \in BOOLEAN, config_fetch \in ConfigFetches,
          keys_fetch \in KeysFetches :
           authorize_current_user(kid, valid, config_fetch, keys_fetch)
    \/ tick

SpecOpenId == Init /\ [][OpenIdNext]_vars

\* ------------------------------------------------------- claim vocabulary
\* a call of insert or insert_batch has returned
AppendReturned == pc = "done" /\ call.op \in {"insert", "insert_batch"}

\* ... and it was made on a Running log with a non-empty list of events
AppendChecked ==
    AppendReturned /\ call.state0 = "Running" /\ call.events # <<>>

\* the Database is Running and no call is inside write_events
Settled == state = "Running" /\ pc \in {"idle", "done"}

\* nothing of the stream log differs from what it was when the call was made
Untouched ==
    /\ file = call.file0
    /\ file_exists = call.file_exists0
    /\ primary_index = call.primary_index0
    /\ source_id_index = call.source_id_index0
    /\ revision(primary_index) = revision(call.primary_index0)
    /\ stream = call.stream0

\* the match rule with the current revision read as the number of events
CountMatch(count, expected) ==
    CASE expected.tag = "Any" -> TRUE
      [] expected.tag = "NoStream" -> count = 0
      [] expected.tag = "StreamExists" -> count > 0
      [] OTHER -> count = expected.n

\* the match rule with Exact(n) naming the row number of the last event
LastRowMatch(count, expected) ==
    CASE expected.tag = "Any" -> TRUE
      [] expected.tag = "NoStream" -> count = 0
      [] expected.tag = "StreamExists" -> count > 0
      [] OTHER -> count > 0 /\ count - 1 = expected.n

\* byte offset at which line i (0-based) of a file holding events begins
RECURSIVE line_start(_, _)
line_start(events, i) ==
    IF i = 0 THEN 0
    ELSE line_start(events, i - 1) + json_len(events[i]) + 1

Min(a, b) == IF a <= b THEN a ELSE b

\* ---------------------------------------------------------------------- C1
\* C1 as stated: an append to a Running log passes the precondition exactly
\* when Any, or NoStream and the stream holds 0 events, or StreamExists and
\* it holds more than 0, or Exact(n) and it holds n events; otherwise it
\* fails with RevisionMismatch.
C1_MatchByCount ==
    AppendChecked =>
        ((ret.status # "RevisionMismatch")
            <=> CountMatch(Len(call.stream0), call.expected))

\* C1 amended: as stated, except that Exact(n) passes exactly when the stream
\* is not empty and n is the row number of its last event, rows numbered
\* from 0 (the stream holds n + 1 events).
C1_MatchByLastRow ==
    AppendChecked =>
        ((ret.status # "RevisionMismatch")
            <=> LastRowMatch(Len(call.stream0), call.expected))

\* C1 witness: an Exact(1) append accepted on a stream of two events
C1_Witness ==
    /\ AppendChecked
    /\ call.expected = [tag |-> "Exact", n |-> 1]
    /\ Len(call.stream0) = 2
    /\ ret.status = "Ok"

\* ---------------------------------------------------------------------- C2
\* C2 as stated: on a Running log with no append in progress, revision()
\* equals the number of events appended.
C2_RevisionIsCount == Settled => revision(primary_index) = Len(stream)

\* C2 amended: revision() is the row number of the last event, rows numbered
\* from 0: the number of events minus 1 on a stream that holds events (0
\* after the first event), and 0 on a stream that holds none.
C2_RevisionIsLastRow ==
    Settled =>
        revision(primary_index) =
            (IF Len(stream) = 0 THEN 0 ELSE Len(stream) - 1)

\* C2 witness: three events appended, revision() = 2
C2_Witness ==
    Settled /\ Len(stream) = 3 /\ revision(primary_index) = 2

\* ---------------------------------------------------------------------- C3
\* C3 as stated: a successful append of N events to a stream whose current
\* revision (number of events) is R returns R + N.
C3_ReturnsCount ==
    (AppendReturned /\ ret.status = "Ok") =>
        ret.value = Len(call.stream0) + Len(call.events)

\* C3 amended: a successful append of N events to a stream that holds R
\* events returns R + N - 1, the row number of the last appended event,
\* which is the new revision().
C3_ReturnsLastRow ==
    (AppendReturned /\ ret.status = "Ok") =>
        /\ ret.value = Len(call.stream0) + Len(call.events) - 1
        /\ ret.value = revision(primary_index)

\* C3 witness: a batch of two appended to a stream of one returns 2
C3_Witness ==
    /\ AppendReturned
    /\ ret.status = "Ok"
    /\ Len(call.stream0) = 1
    /\ Len(call.events) = 2
    /\ ret.value = 2

\* ---------------------------------------------------------------------- C5
\* the events the lines of a record file decode to
file_events(f) ==
    [i \in 1..Len(lines(f)) |-> decode_event(lines(f)[i]).event]

\* C5: a batch append is all-or-nothing.  When insert_batch succeeds the
\* record file holds the events from before followed by the events of the
\* batch in the given order, the index has gained one row number per event,
\* directly after the previous last one, and a range read from the first new
\* row returns the batch in order.  When it fails (SourceIdConflict or any
\* other error) the record file, the indexes and revision() are as before.
C5_BatchAllOrNothing ==
    (pc = "done" /\ call.op = "insert_batch") =>
        IF ret.status = "Ok"
        THEN LET r0 == Len(call.stream0)
                 n == Len(call.events)
             IN  /\ file_events(file) = call.stream0 \o call.events
                 /\ Len(file) = line_start(call.stream0 \o call.events, r0 + n)
                 /\ DOMAIN primary_index = 0..(r0 + n - 1)
                 /\ read_rows(file, primary_index[r0], n) =
                        [status |-> "Ok", events |-> call.events]
        ELSE Untouched

\* C5 witness: a batch whose first event is new and whose second event is
\* already in the stream is rejected with SourceIdConflict
C5_Witness ==
    /\ pc = "done"
    /\ call.op = "insert_batch"
    /\ call.events = <<"b", "a">>
    /\ call.stream0 = <<"a">>
    /\ ret.status = "SourceIdConflict"

\* ---------------------------------------------------------------------- C6
\* C6: an append whose expected revision does not match fails with
\* RevisionMismatch, and an append that fails with RevisionMismatch has
\* changed nothing: the record file, both indexes and revision() are as they
\* were when the call was made.
C6_MismatchChangesNothing ==
    /\ (AppendChecked /\ ~LastRowMatch(Len(call.stream0), call.expected))
           => ret.status = "RevisionMismatch"
    /\ (AppendReturned /\ ret.status = "RevisionMismatch") => Untouched

\* C6 witness: NoStream on a stream that holds one event fails
C6_Witness ==
    /\ AppendReturned
    /\ call.expected.tag = "NoStream"
    /\ call.stream0 = <<"a">>
    /\ ret.status = "RevisionMismatch"

\* ---------------------------------------------------------------------- C7
\* C7: query_many(start, limit) on a Running log returns exactly the events
\* at revisions start+1 .. min(start+limit, count) in append order (nothing
\* when start >= count), and query of a position that holds no event
\* returns nothing.
C7_RangeRead ==
    /\ (pc = "done" /\ call.op = "query_many" /\ call.state0 = "Running") =>
           /\ ret.status = "Ok"
           /\ ret.events =
                  SubSeq(stream, call.start + 1,
                         Min(call.start + call.limit, Len(stream)))
    /\ (pc = "done" /\ call.op = "query" /\ call.state0 = "Running"
            /\ call.start >= Len(stream)) =>
           (ret.status = "Ok" /\ ret.events = <<>>)

\* ---------------------------------------------------------------------- C8
\* C8: on a Running log with no append in progress, for every i in
\* [0, count) index entry i holds the byte offset at which the line of event
\* i begins, and the event read at that entry is event i.
C8_IndexOffsets ==
    Settled =>
        \A i \in 0..(Len(stream) - 1) :
            /\ i \in DOMAIN primary_index
            /\ primary_index[i] = line_start(stream, i)
            /\ read_row(file, primary_index[i]).events = <<stream[i + 1]>>

\* --------------------------------------------------------------------- C10
\* C10: in every state, the states inside an append included, every index
\* entry holds an offset smaller than the length of the record file.
C10_IndexInsideFile ==
    \A k \in DOMAIN primary_index : primary_index[k] < Len(file)

\* ---------------------------------------------------------------------- C9
\* number of newline-terminated lines of a record file
RECURSIVE complete_lines(_)
complete_lines(f) ==
    IF f = <<>> THEN 0
    ELSE (IF Head(f) = NL THEN 1 ELSE 0) + complete_lines(Tail(f))

\* C9: start() on a fresh instance succeeds whatever a crash inside an append
\* left in the record file, and then the index holds one row per complete
\* line of the file (the revision read as the number of rows), each row's
\* offset being the start of a line, in increasing order.
C9_CrashRecovery ==
    (pc = "done" /\ call.op = "start" /\ call.state0 = "Stopped") =>
        /\ ret.status = "Ok"
        /\ state = "Running"
        /\ DOMAIN primary_index = 0..(complete_lines(file) - 1)
        /\ \A i \in DOMAIN primary_index :
               /\ primary_index[i] < Len(file)
               /\ primary_index[i] = 0 \/ file[primary_index[i]] = NL
               /\ i > 0 => primary_index[i - 1] < primary_index[i]

\* ---------------------------------------------------------------------- C4
\* the events of the accepted appends, in the order of acceptance
RECURSIVE accepted_events(_)
accepted_events(acc) ==
    IF acc = <<>> THEN <<>>
    ELSE Head(acc).events \o accepted_events(Tail(acc))

\* an append has returned with the verdict of the revision check
AppendDecided ==
    /\ returned.op \in {"insert_event", "insert_event_many"}
    /\ returned.status \in {"Ok", "RevisionMismatch"}

\* two accepted appends that exclude each other: both NoStream, or both the
\* same Exact(n)
SameSlot(x, y) ==
    /\ x.expected.tag \in {"NoStream", "Exact"}
    /\ x.expected = y.expected

C11_SingleHandle ==
    ~deleted =>
        /\ Cardinality(inserted) <= 1
        /\ \A t \in Tasks : tasks[t].db # {} => tasks[t].db = streams

\* --------------------------------------------------------------------- C12
\* the caller's call has returned
CallReturned(op) == tasks[1].pc = "done" /\ returned.op = op

\* the caller's call before this one was an append that was accepted
AfterAcceptedAppend ==
    /\ previous.op \in {"insert_event", "insert_event_many"}
    /\ previous.status = "Ok"

\* C12: for one caller making its calls one after another: delete_stream on
\* a stream that holds events returns true; a delete_stream directly after a
\* delete_stream that returned true returns false; after a delete_stream has
\* returned true the registry has no entry for the stream and the record file
\* is gone; and delete_stream on a key no append was ever made to returns
\* false and leaves registry, directory and file as they were, absent.
C12_DeleteIdempotent ==
    CallReturned("delete_stream") =>
        /\ returned.status = "Ok"
        /\ AfterAcceptedAppend => returned.value = 1
        /\ (previous.op = "delete_stream" /\ previous.value = 1)
               => returned.value = 0
        /\ returned.value = 1 => streams = {} /\ ~file_exists /\ file = <<>>
        /\ inserted = {} =>
               /\ returned.value = 0
               /\ streams = {} /\ ~file_exists /\ file = <<>> /\ ~user_dir

\* C12 witness: an append was accepted, the next two calls were
\* delete_stream, the first returned true and the second false
C12_Witness ==
    /\ CallReturned("delete_stream")
    /\ returned.value = 0
    /\ previous.op = "delete_stream"
    /\ previous.value = 1
    /\ accepted # <<>>
    /\ calls = 2

\* --------------------------------------------------------------------- C13
\* the caller's insert_event with NoStream has returned, and its call before
\* was a delete_stream that returned true
NoStreamAfterDelete ==
    /\ CallReturned("insert_event")
    /\ returned.expected.tag = "NoStream"
    /\ previous.op = "delete_stream"
    /\ previous.value = 1

\* the stream and the handle the registry has for it hold exactly the events
\* of the last accepted append, readable at row 0
FreshStream ==
    /\ returned.status = "Ok"
    /\ accepted # <<>>
    /\ streams # {}
    /\ LET last == accepted[Len(accepted)]
           db == dbs[CHOOSE h \in streams : TRUE]
       IN  /\ file_exists
           /\ file_events(file) = last.events
           /\ DOMAIN db.primary_index = {0}
           /\ read_row(file, db.primary_index[0]) =
                  [status |-> "Ok", events |-> last.events]

row_read(f, pi, r) ==
    IF r \in DOMAIN pi THEN read_row(f, pi[r]).events ELSE <<>>

\* a step of the running instance that is not a delete
SameInstanceStep ==
    /\ state = "Running"
    /\ state' = "Running"
    /\ ~(pc = "idle" /\ pc' = "done" /\ call'.op = "delete")

\* C15: in every step of a running instance other than a delete, a row that
\* is readable stays readable and reads as the same event, and revision()
\* does not decrease.
C15_AppendOnly ==
    [][SameInstanceStep =>
           /\ \A r \in 0..MaxRows :
                  row_read(file, primary_index, r) # <<>> =>
                      row_read(file', primary_index', r) =
                          row_read(file, primary_index, r)
           /\ revision(primary_index') >= revision(primary_index)]_vars

\* C15 witness: an insert into a stream that already held a readable event
\* has returned
C15_Witness ==
    /\ AppendChecked
    /\ ret.status = "Ok"
    /\ row_read(call.file0, call.primary_index0, 0) # <<>>
    /\ Rows >= 2

\* --------------------------------------------------------------------- C16
\* C16: when an insert_event / insert_event_many on a key that never had an
\* accepted append has failed and no other call is running, the stream is
\* absent: the registry has no entry for the key, and neither the user's
\* directory nor a record file was created.
C16_FailedAppendLeavesNothing ==
    ( /\ tasks[1].pc = "done"
      /\ \A t \in Tasks : t # 1 => tasks[t].pc = "idle"
      /\ returned.op \in {"insert_event", "insert_event_many"}
      /\ returned.status # "Ok"
      /\ accepted = <<>> )
        => streams = {} /\ ~user_dir /\ ~file_exists

\* --------------------------------------------------------------------- C17
\* a data operation has returned
DataOpReturned ==
    pc = "done" /\ call.op \in {"query", "query_many", "insert", "insert_batch"}

\* C17: query, query_many, insert and insert_batch called on a Stopped log
\* fail with Stopped and leave the record file, the indexes and the state as
\* they were; a data operation that did not fail with Stopped was called on
\* a Running log.
C17_StoppedRejects ==
    DataOpReturned =>
        /\ call.state0 = "Stopped" =>
               ret.status = "Stopped" /\ Untouched /\ state = "Stopped"
        /\ ret.status # "Stopped" => call.state0 = "Running"

\* C17 witness: an insert on a Stopped log whose record file holds events
\* has been refused
C17_Witness ==
    /\ DataOpReturned
    /\ call.op = "insert"
    /\ call.state0 = "Stopped"
    /\ call.file0 # <<>>
    /\ ret.status = "Stopped"

\* --------------------------------------------------------------------- C18
\* C18: once delete has succeeded on a Database, no data operation on that
\* Database succeeds and its indexes stay empty.
C18_DeleteTerminal ==
    removed =>
        /\ DataOpReturned => ret.status # "Ok"
        /\ primary_index = EmptyMap

\* --------------------------------------------------------------------- C19
\* an insert or insert_batch carrying Exact(n) has returned from a Running
\* log
ExactReturned == AppendChecked /\ call.expected.tag = "Exact"

\* C19: an append with Exact(0) to a started stream that holds no event is
\* refused with RevisionMismatch; with Exact(0) to a stream that holds one
\* event it passes the revision check; and Exact(n) passes exactly when the
\* stream holds events and n is the number the most recent successful
\* append returned.
C19_ExactIsLastReturned ==
    ExactReturned =>
        /\ (call.stream0 = <<>> /\ call.expected.n = 0)
               => ret.status = "RevisionMismatch"
        /\ (Len(call.stream0) = 1 /\ call.expected.n = 0)
               => ret.status # "RevisionMismatch"
        /\ ret.status # "RevisionMismatch"
               <=> (call.stream0 # <<>>
                        /\ call.last_returned0 = {call.expected.n})

\* C19 witness: an insert with Exact(0) into a stream of one event was
\* accepted
C19_Witness ==
    /\ ExactReturned
    /\ call.op = "insert"
    /\ call.expected.n = 0
    /\ Len(call.stream0) = 1
    /\ ret.status = "Ok"

\* --------------------------------------------------------------------- C20
\* a single-event insert has been accepted
InsertAccepted == pc = "done" /\ call.op = "insert" /\ ret.status = "Ok"

\* C20: a successful insert returns the number of events the stream held
\* before it, which is k for the k-th insert (k counted from 0) of a
\* sequence of single-event inserts into an empty stream, and query with the
\* returned number yields the inserted event.
C20_ReturnIdentifiesEvent ==
    InsertAccepted =>
        /\ ret.value = Len(call.stream0)
        /\ row_read(file, primary_index, ret.value) = call.events

\* C20 witness: the insert after a first one has returned 1 and its event is
\* read at row 1
C20_Witness ==
    /\ InsertAccepted
    /\ Len(call.stream0) = 1
    /\ ret.value = 1
    /\ row_read(file, primary_index, 1) = call.events

\* --------------------------------------------------------------------- C21
\* an insert or insert_batch has returned from a Running log, and one of its
\* events has the (source, id) pair of an event the stream already held
DuplicateReturned ==
    /\ AppendChecked
    /\ \E i \in DOMAIN call.events, j \in DOMAIN call.stream0 :
           source_id(call.events[i]) = source_id(call.stream0[j])

\* C21: an insert of an event whose (source, id) pair is that of an event
\* already in the stream never succeeds: it fails with SourceIdConflict when
\* its expected revision matches (the revision check comes first, so a
\* mismatch is reported as RevisionMismatch), and either way the record
\* file, both indexes and revision() stay as they were.
C21_DuplicateRejected ==
    DuplicateReturned =>
        /\ ret.status =
               (IF LastRowMatch(Len(call.stream0), call.expected)
                THEN "SourceIdConflict" ELSE "RevisionMismatch")
        /\ Untouched

\* C21 witness: a second insert of the first event of a stream of two, with
\* Any, has failed with SourceIdConflict
C21_Witness ==
    /\ DuplicateReturned
    /\ call.op = "insert"
    /\ call.events = <<call.stream0[1]>>
    /\ Len(call.stream0) = 2
    /\ call.expected.tag = "Any"
    /\ ret.status = "SourceIdConflict"

\* --------------------------------------------------------------------- C22
\* an insert_batch with an empty list of events has returned
EmptyReturned ==
    pc = "done" /\ call.op = "insert_batch" /\ call.events = <<>>

\* C22: an insert_batch with an empty list of events is rejected whatever
\* its expected revision and whatever the state of the log, with the
\* empty-list error on a Running log and with Stopped on a Stopped one, and
\* the record file, both indexes and revision() are as they were.
C22_EmptyRejected ==
    EmptyReturned =>
        /\ ret.status =
               (IF call.state0 = "Running" THEN "EmptyList" ELSE "Stopped")
        /\ Untouched
        /\ state = call.state0

\* C22 witness: an empty batch whose expected revision matches a stream of
\* two events has been rejected
C22_Witness ==
    /\ EmptyReturned
    /\ call.state0 = "Running"
    /\ Len(call.stream0) = 2
    /\ call.expected = [tag |-> "Exact", n |-> 1]
    /\ ret.status = "EmptyList"

\* --------------------------------------------------------------------- C23
\* the entries of the streams directory, outside lost+found, whose names
\* decode to a stream ID
well_formed == {p \in DOMAIN files : p[1] # LostFound
                                      /\ decode_stream_id(p[2]).ok}

\* no directory under streams_path has a dot in its name
PlainDirs == \A d \in dirs : file_stem(d) = d

\* C23: when AppState::new has run on a streams directory (whose user
\* directories have plain names), whatever malformed entries the directory
\* holds, it has returned a registry, and the registry has a handle for
\* every well-formed stream entry.
C23_MalformedSkipped ==
    (answer.op = "new" /\ PlainDirs) =>
        /\ answer.status = "Ok"
        /\ up
        /\ \A p \in well_formed :
               <<p[1], decode_stream_id(p[2]).stream_id>> \in DOMAIN stream_map

\* --------------------------------------------------------------------- C24
\* the entries of the streams directory outside lost+found
stream_entries == {p \in DOMAIN files : p[1] # LostFound}

\* C24: when AppState::new has run on a streams directory all of whose
\* stream entries are well formed, it has returned a registry that holds a
\* handle for exactly the keys (user directory, decoded name) of the stream
\* entries outside lost+found; so every key that has had an append accepted
\* and was not deleted since has its handle.
C24_RestartFindsStreams ==
    (answer.op = "new" /\ stream_entries = well_formed) =>
        /\ answer.status = "Ok"
        /\ DOMAIN stream_map =
               {<<p[1], decode_stream_id(p[2]).stream_id>> :
                    p \in stream_entries}
        /\ \A key \in Keys :
               appended[key] # <<>> => key \in DOMAIN stream_map

\* --------------------------------------------------------------------- C30
\* the revision a stream has: the row number of its last event, 0 when it
\* holds none
current_revision(key) ==
    IF appended[key] = <<>> THEN 0 ELSE Len(appended[key]) - 1

\* the streams of a user that are both in the user's directory and in the
\* registry
listed(user_id) ==
    {s \in StreamIds : /\ <<user_id, s>> \in DOMAIN stream_map
                       /\ db_path(<<user_id, s>>) \in DOMAIN files}

InFlight == {t \in Callers : futures[t].pc \notin {"idle", "done"}}

\* the reads among them
Reads == {t \in InFlight : futures[t].op = "get_event"}

\* the call waits for the Mutex that call u holds
waits_for(t, u) ==
    /\ futures[t].pc = "wait"
    /\ guards[held(t)] = {u}

\* C25: readers do not block readers: a read of a stream never has to wait
\* until another read of that stream has finished.
C25_ReadersShare ==
    \A t \in Reads, u \in Reads : ~waits_for(t, u)

\* ------------------------------------------------------------------ C26
\* the worker thread of the call waits for the write lock of a shard, and
\* call u holds a read lock on that shard
shard_wait(t, u) ==
    /\ t \in workers
    /\ futures[t].pc \in {"insert", "remove"}
    /\ u \in shard_readers(futures[t].key)

\* C26: an in-flight call on one stream does not block the registry: a call
\* that addresses another (user, stream) key, one that creates or deletes
\* that stream included, never waits for it.
C26_OtherKeysFree ==
    \A t \in InFlight, u \in InFlight :
        shard_wait(t, u) => futures[u].key = futures[t].key

\* ------------------------------------------------------------------ C27
\* C27: the core stays responsive: no set of in-flight calls can block each
\* other forever; while a call is in flight, the runtime has a future it
\* can poll.
C27_Responsive ==
    InFlight # {} => ENABLED RtPoll

\* ------------------------------------------------------------------ C28
\* C28: post_event answers 201 when the append succeeded, 409 when it failed
\* with RevisionMismatch, SourceIdConflict or Stopped, 401 only when
\* authentication failed, and 500 for every other failure.
C28_PostEventStatus ==
    response.handler = "post_event" =>
        response.code =
            CASE ~response.authenticated -> 401
              [] response.outcome = "Ok" -> 201
              [] response.outcome \in {"RevisionMismatch", "SourceIdConflict",
                                       "Stopped"} -> 409
              [] OTHER -> 500

\* ------------------------------------------------------------------ C29
\* the handlers that address one stream without creating it
StreamHandlers ==
    {"get_event", "get_event_index", "get_stream", "delete_stream"}

\* C29: a request that addresses a stream absent from the registry is
\* answered with 404, never with 500, by get_event, get_event_index,
\* get_stream and delete_stream alike.
C29_AbsentStreamIs404 ==
    (/\ response.handler \in StreamHandlers
     /\ response.authenticated
     /\ ~response.registered) => response.code = 404

\* --------------------------------------------------------------------- C31
\* start has returned
StartReturned == pc = "done" /\ call.op = "start"

\* what load builds from the record file on top of the indexes the
\* Database had when start was called
Loaded ==
    load(call.file0, call.primary_index0, call.source_id_index0)

\* a new Database takes the place of this one: Database::new at a restart,
\* or after the process died inside an append
NewInstance == new \/ crash

\* C31: the run state changes only through start.  start on a Stopped log
\* loads the index from the record file and, when loading succeeds, moves
\* to Running and returns true; when loading fails the log stays Stopped;
\* start on a Running log returns false and changes neither the state nor
\* the indexes; a Running log never returns to Stopped.
C31_StartOnly ==
    /\ [](StartReturned =>
              IF call.state0 = "Running"
              THEN /\ ret = Ret("Ok", 0, <<>>)
                   /\ state = "Running"
                   /\ primary_index = call.primary_index0
                   /\ source_id_index = call.source_id_index0
              ELSE /\ Loaded.ok => /\ ret = Ret("Ok", 1, <<>>)
                                   /\ state = "Running"
                                   /\ primary_index = Loaded.primary_index
                                   /\ source_id_index = Loaded.source_id_index
                   /\ ~Loaded.ok => ret.status # "Ok" /\ state = "Stopped")
    /\ [][(state' # state /\ ~NewInstance) =>
              /\ state = "Stopped"
              /\ state' = "Running"
              /\ pc = "idle"
              /\ call'.op = "start"]_vars

\* C31 witness: start on a Stopped Database whose record file holds events
\* has loaded them and returned true
C31_Witness ==
    /\ StartReturned
    /\ call.state0 = "Stopped"
    /\ ret = Ret("Ok", 1, <<>>)
    /\ Cardinality(DOMAIN primary_index) >= 2

\* a start whose load failed has returned
StartFailed == StartReturned /\ ret.status = "DecodeFailed"

\* --------------------------------------------------------------------- C32
\* C32: whenever no append is in progress on a started log, the number of
\* index entries equals the number of event lines in the record file.
C32_IndexCountsLines ==
    Settled => Cardinality(DOMAIN primary_index) = Len(lines(file))

\* C32 witness: a batch of two events has been appended to a log whose
\* record file had been deleted before
C32_Witness ==
    /\ pc = "done"
    /\ call.op = "insert_batch"
    /\ ret.status = "Ok"
    /\ removed
    /\ Len(lines(file)) >= 2

\* --------------------------------------------------------------------- C33
\* a read of the log has returned
ReadReturned == pc = "done" /\ call.op \in {"query", "query_many"}

\* C33: read operations never change state: a query or query_many of the
\* log creates no file and changes neither the events nor the revision of
\* the stream, a read of a deleted stream included.
C33_ReadsChangeNothing ==
    ReadReturned =>
        /\ file_exists = call.file_exists0
        /\ file = call.file0
        /\ primary_index = call.primary_index0
        /\ source_id_index = call.source_id_index0
        /\ state = call.state0

\* --------------------------------------------------------------------- C34
\* the step is an append to the stream of the key, or a delete of it
writes_stream(key) ==
    /\ answer'.op \in {"insert_event", "delete_stream"}
    /\ answer'.user_id = key[1]
    /\ \/ \E event \in Events, expected \in ScanExpected :
              insert_event(key[1], key[2], event, expected)
       \/ delete_stream(key[1], key[2])

\* the step leaves the stream of the key as it is: its registry entry, its
\* record file, its events and its revision
same_stream(key) ==
    /\ (key \in DOMAIN stream_map') = (key \in DOMAIN stream_map)
    /\ key \in DOMAIN stream_map => stream_map'[key] = stream_map[key]
    /\ (db_path(key) \in DOMAIN files') = (db_path(key) \in DOMAIN files)
    /\ db_path(key) \in DOMAIN files =>
           files'[db_path(key)] = files[db_path(key)]
    /\ appended'[key] = appended[key]

\* C34: streams are independent: an append to or a delete of one
\* (user, stream) leaves the events, the revision and the registry entry of
\* every other stream unchanged, a stream with the same stream ID under
\* another user included.
C34_StreamsIndependent ==
    [][\A key \in Keys :
           writes_stream(key) =>
               \A other \in Keys \ {key} : same_stream(other)]_vars

\* C34 witness: the only stream of user u.v has been deleted while a stream
\* of user u holds an event
C34_Witness ==
    /\ answer.op = "delete_stream"
    /\ answer.user_id = <<"u", ".", "v">>
    /\ answer.value = 1
    /\ \A key \in DOMAIN stream_map : key[1] = <<"u">>
    /\ \E s \in StreamIds : appended[<<<<"u">>, s>>] # <<>>

\* --------------------------------------------------------------------- C35
\* C35: no two events stored in the stream of a running log have the same
\* (source, id) pair, whether they were submitted in separate calls or in
\* the same batch.
C35_UniqueSourceId ==
    Settled =>
        LET stored == file_events(file)
        IN  \A i, j \in DOMAIN stored :
                i # j => source_id(stored[i]) # source_id(stored[j])

\* --------------------------------------------------------------------- C36
\* every call that was made has returned
AllReturned == \A t \in Tasks : tasks[t].pc \in {"idle", "done"}

\* an append has returned StreamNotFound
AppendNotFound ==
    /\ returned.op \in {"insert_event", "insert_event_many"}
    /\ returned.status = "StreamNotFound"

\* the registry holds the stream and the record file holds the events of
\* the acknowledged appends
StreamHoldsAccepted ==
    /\ file_exists
    /\ file_events(file) = accepted_events(accepted)

\* C36: an insert_event and a delete_stream on the same (user, stream), in
\* any interleaving, end as they would in some serial order: the append
\* does not fail with StreamNotFound, and when the append was acknowledged
\* and the registry holds the stream afterwards, the record file is there
\* and holds the acknowledged events.
C36_SerialOutcome ==
    /\ ~AppendNotFound
    /\ (AllReturned /\ deleted /\ accepted # <<>> /\ streams # {}) =>
           StreamHoldsAccepted

\* --------------------------------------------------------------------- C37
\* what a fresh Database on the same record file holds once started
Restarted == load(file, EmptyMap, EmptyMap)

\* C37: on a Running log that has seen only appends (no delete), with no
\* append in progress, a fresh Database started on the same record file
\* holds the same indexes as the running one: load() succeeds, its two
\* indexes equal the in-memory indexes, so revision() is the same and every
\* row is read from the same place.
C37_RestartTransparent ==
    (Settled /\ ~removed) =>
        /\ Restarted.ok
        /\ primary_index = Restarted.primary_index
        /\ source_id_index = Restarted.source_id_index
        /\ revision(primary_index) = revision(Restarted.primary_index)
        /\ \A i \in DOMAIN primary_index :
               read_row(file, primary_index[i])
                   = read_row(file, Restarted.primary_index[i])

\* --------------------------------------------------------------------- C38
\* C38: a read request that was once answered with the immutable header is
\* answered with the same events ever after: whenever the last response
\* of a read handler is to a request that a response marked immutable has
\* answered before, its events are those of that response.
C38_ImmutableStaysValid ==
    served.request \in DOMAIN cached =>
        served.events = cached[served.request]

\* --------------------------------------------------------------------- C39
\* the last call's refresh_oidc_config fetched successfully and returned Ok
ConfigRefreshed ==
    authorized.config_fetch = "ok" /\ authorized.config_refresh = "Ok"

\* the last call's refresh_keys fetched successfully and returned Ok
KeysRefreshed == authorized.keys_fetch = "ok" /\ authorized.keys_refresh = "Ok"

\* C39: after refresh_oidc_config (refresh_keys) has fetched successfully
\* and returned Ok, the cached configuration (JWKS) and its last-updated
\* time are set, authorize_current_user finds the configuration present
\* after refreshing, and no two successful fetches of the configuration
\* are within the maximum age of one another.
C39_FetchIsCached ==
    /\ ConfigRefreshed =>
           /\ oidc_config # {}
           /\ oidc_config_last_updated # {}
           /\ authorized.status # "ConfigNoneAfterRefresh"
    /\ KeysRefreshed => jwks # {} /\ jwks_last_updated # {}
    /\ \A i, j \in DOMAIN config_fetched :
           i < j => config_fetched[j] - config_fetched[i] > oidc_config_max_age

====
